---- MODULE Spec2Model ----
(***************************************************************************)
(* Model of the FTDI device session of ftdi_library                        *)
(* (src/ftdi_library/src/ftdi/ftdi_context.rs): the session object         *)
(* ftdi_context, its open / flush / write operations, the clock encoder    *)
(* and the completion callback of an asynchronous bulk read.               *)
(*                                                                         *)
(* The USB transport (libusb) is the environment: every transport call     *)
(* has a nondeterministic outcome drawn with \E from the outcomes the      *)
(* code distinguishes.                                                     *)
(***************************************************************************)
EXTENDS Integers, Sequences, FiniteSets, TLC

(***************************************************************************)
(* Bounds of the model.                                                    *)
(***************************************************************************)
\* longest buffer handed to ftdi_write_data
MaxBufLen == 6
\* largest writebuffer_chunksize a session is created with
MaxChunk == 3
\* longest raw transfer completed with a small packet size
MaxXferLen == 11
\* readbuffer_offset is capped here: a callback is not delivered beyond it
MaxOffset == 4

(***************************************************************************)
(* Program constants.                                                      *)
(***************************************************************************)
H_CLK == 120000000
C_CLK == 48000000
AM_CLK == 24000000
FRAC_CODE == <<0, 3, 2, 4, 1, 5, 6, 7>>
am_adjust_up == <<0, 0, 0, 1, 0, 3, 2, 1>>
am_adjust_dn == <<0, 0, 0, 1, 0, 1, 2, 3>>
AM_MAX_DIVISOR == 131064
DEFAULT_BAUDRATE == 9600
EPERM == 1
\* packet sizes ftdi_determine_max_packet_size starts from
PACKET_SIZE_H == 512
PACKET_SIZE_FS == 64
STATUS_BYTES == 2

ChipTypes == {"TYPE_AM", "TYPE_BM", "TYPE_2232C", "TYPE_R", "TYPE_2232H",
              "TYPE_4232H", "TYPE_232H", "TYPE_230X"}
HChips == {"TYPE_2232H", "TYPE_4232H", "TYPE_232H"}
DetachModes == {"AUTO_DETACH_SIO_MODULE", "DONT_DETACH_SIO_MODULE",
                "AUTO_DETACH_REATACH_SIO_MODULE"}

(***************************************************************************)
(* Bit operations on naturals, and the widths of the code's integers.      *)
(***************************************************************************)
RECURSIVE BitOr(_, _)
BitOr(a, b) ==
    IF a = 0 THEN b
    ELSE IF b = 0 THEN a
    ELSE (IF a % 2 = 1 \/ b % 2 = 1 THEN 1 ELSE 0) + 2 * BitOr(a \div 2, b \div 2)

RECURSIVE BitAnd(_, _)
BitAnd(a, b) ==
    IF a = 0 \/ b = 0 THEN 0
    ELSE (IF a % 2 = 1 /\ b % 2 = 1 THEN 1 ELSE 0) + 2 * BitAnd(a \div 2, b \div 2)

Pow2_16 == 65536

AsU16(x) == x % Pow2_16

\* a * k in i32 for a small k > 0, computed on two 16-bit halves (the low
\* one taken non-negative, the high one with the sign): the product as the
\* build without overflow checks leaves it (wrapped), and whether it
\* overflowed, which panics in the build with overflow checks
MulI32(a, k) ==
    LET lo == (a % Pow2_16) * k
        hi == (a \div Pow2_16) * k + (lo \div Pow2_16)
        th == hi % Pow2_16
    IN [overflow |-> hi >= Pow2_16 \div 2 \/ hi < -(Pow2_16 \div 2),
        wrapped |-> (IF th >= Pow2_16 \div 2 THEN th - Pow2_16 ELSE th) * Pow2_16
                    + (lo % Pow2_16)]

(***************************************************************************)
(* ClockEncoder.                                                           *)
(***************************************************************************)
\* FRAC_CODE[d & 7] << 14, computed in u16 as the code does: the bits shifted
\* beyond bit 15 are lost
FracBits(d) == AsU16(FRAC_CODE[(d % 8) + 1] * 16384)

\* one pass of the while loop of ftdi_to_clkbits_am: the divisor tried at step i
AmTryDivisor(divisor, i) ==
    LET t == divisor + i IN
    IF t <= 8 THEN 8
    ELSE IF divisor < 16 THEN 16
    ELSE LET u == t + am_adjust_up[(t % 8) + 1] IN
         IF u > AM_MAX_DIVISOR THEN AM_MAX_DIVISOR ELSE u

AmBaudEstimate(t) == (AM_CLK + (t \div 2)) \div t

AbsDiff(a, b) == IF a < b THEN b - a ELSE a - b

\* ftdi_to_clkbits_am without the two special cases of the encoded value
ftdi_to_clkbits_am_raw(baudrate) ==
    LET d0 == AM_CLK \div baudrate
        divisor == d0 - am_adjust_dn[(d0 % 8) + 1]
        t0 == AmTryDivisor(divisor, 0)
        t1 == AmTryDivisor(divisor, 1)
        e0 == AmBaudEstimate(t0)
        e1 == AmBaudEstimate(t1)
        diff0 == AbsDiff(e0, baudrate)
        diff1 == AbsDiff(e1, baudrate)
        second == diff0 # 0 /\ diff1 < diff0
        best_divisor == IF second THEN t1 ELSE t0
        best_baud == IF second THEN e1 ELSE e0
    IN [best_baud |-> best_baud,
        encoded_divisor |-> BitOr(best_divisor \div 8, FracBits(best_divisor))]

ftdi_to_clkbits_am(baudrate) ==
    LET d0 == AM_CLK \div baudrate
        divisor == d0 - am_adjust_dn[(d0 % 8) + 1]
        t0 == AmTryDivisor(divisor, 0)
        t1 == AmTryDivisor(divisor, 1)
        e0 == AmBaudEstimate(t0)
        e1 == AmBaudEstimate(t1)
        diff0 == AbsDiff(e0, baudrate)
        diff1 == AbsDiff(e1, baudrate)
        second == diff0 # 0 /\ diff1 < diff0
        best_divisor == IF second THEN t1 ELSE t0
        best_baud == IF second THEN e1 ELSE e0
        raw == BitOr(best_divisor \div 8, FracBits(best_divisor))
        encoded == IF raw = 1 THEN 0 ELSE IF raw = 16385 THEN 1 ELSE raw
    IN [best_baud |-> best_baud, encoded_divisor |-> encoded]

ftdi_to_clkbits(baudrate, clk, clk_div) ==
    IF baudrate >= clk \div clk_div
    THEN [best_baud |-> clk \div clk_div, encoded_divisor |-> 0]
    ELSE IF baudrate >= clk \div (clk_div + clk_div \div 2)
    THEN [best_baud |-> clk \div (clk_div + clk_div \div 2), encoded_divisor |-> 1]
    ELSE IF baudrate >= clk \div (2 * clk_div)
    THEN [best_baud |-> clk \div (2 * clk_div), encoded_divisor |-> 2]
    ELSE LET divisor == ((clk * 16) \div clk_div) \div baudrate
             bd0 == IF divisor % 2 # 0 THEN divisor \div 2 + 1 ELSE divisor \div 2
             best_divisor == IF bd0 > 131072 THEN 131071 ELSE bd0
             bb0 == ((clk * 16) \div clk_div) \div best_divisor
             best_baud == IF bb0 % 2 # 0 THEN bb0 \div 2 + 1 ELSE bb0 \div 2
         IN [best_baud |-> best_baud,
             encoded_divisor |-> BitOr(best_divisor \div 8, FracBits(best_divisor))]

\* ftdi_convert_baudrate: the achievable rate and the value / index words.
\* baudrate * 10 is an i32 product: it wraps when it overflows
ftdi_convert_baudrate(type, idx, baudrate) ==
    IF baudrate <= 0 THEN [best_baud |-> -1, value |-> 0, index |-> 0]
    ELSE LET r == IF type \in HChips
                  THEN IF MulI32(baudrate, 10).wrapped > H_CLK \div 16383
                       THEN LET c == ftdi_to_clkbits(baudrate, H_CLK, 10)
                            IN [c EXCEPT !.encoded_divisor = BitOr(@, 131072)]
                       ELSE ftdi_to_clkbits(baudrate, C_CLK, 16)
                  ELSE ftdi_to_clkbits_am(baudrate)
             e == r.encoded_divisor
         IN [best_baud |-> r.best_baud,
             value |-> AsU16(e),
             index |-> IF type \in HChips
                       THEN BitOr(BitAnd(AsU16(e \div 256), 65280), idx)
                       ELSE AsU16(e \div 65536)]

\* BaudrateRefused that looks at rates below the request only
BaudrateRefused_low(actual, requested) ==
    \/ actual * 2 < requested
    \/ actual < requested /\ actual * 21 < requested * 20

\* the tolerance test of ftdi_set_baudrate (about 5%), TRUE when the rate is
\* refused; its products are i32 products, compared as they wrap
BaudrateRefused(actual, requested) ==
    \/ MulI32(actual, 2).wrapped < requested
    \/ IF actual < requested
       THEN MulI32(actual, 21).wrapped < MulI32(requested, 20).wrapped
       ELSE MulI32(requested, 21).wrapped < MulI32(actual, 20).wrapped

(***************************************************************************)
(* The session (struct ftdi_context) is one record; an operation is an     *)
(* operator from the session and the outcomes of its transport calls to    *)
(* the session it leaves, its result and the transfers it issued.          *)
(***************************************************************************)
NoHandle == 0
Handles == {1}

\* the session ftdi_context::new() returns (usb_ctx present) and the one
\* Default::default() returns (usb_ctx absent)
NewSession(ctx, chunksize) ==
    [usb_ctx |-> ctx,
     usb_dev |-> NoHandle,
     type |-> "TYPE_BM",
     baudrate |-> -1,
     bitbang_enabled |-> FALSE,
     readbuffer_offset |-> 0,
     readbuffer_remaining |-> 0,
     writebuffer_chunksize |-> chunksize,
     max_packet_size |-> 0,
     interface |-> 0,
     index |-> 0,
     in_ep |-> 0,
     out_ep |-> 0,
     bitbang_mode |-> 0,
     module_detach_mode |-> "AUTO_DETACH_SIO_MODULE"]

\* what an operation returns: the session left, the result, the number of
\* control transfers issued
Ret(s, r, c) == [s |-> s, res |-> r, ctrl |-> c]

check_usb_context_initialized(s) == s.usb_ctx
check_usb_device(s) == s.usb_dev # NoHandle

InterfaceTypes == {"INTERFACE_ANY", "INTERFACE_A", "INTERFACE_B", "INTERFACE_C",
                   "INTERFACE_D"}
\* ftdi_interface::INTERFACE_x.into()
InterfaceIndex(it) ==
    CASE it = "INTERFACE_ANY" -> 0
      [] it = "INTERFACE_A" -> 1
      [] it = "INTERFACE_B" -> 2
      [] it = "INTERFACE_C" -> 3
      [] it = "INTERFACE_D" -> 4

set_interface_type(s, it) ==
    LET t == CASE it \in {"INTERFACE_ANY", "INTERFACE_A"} ->
                    [interface |-> 0, index |-> InterfaceIndex("INTERFACE_A"),
                     in_ep |-> 2, out_ep |-> 129]
               [] it = "INTERFACE_B" ->
                    [interface |-> 1, index |-> InterfaceIndex("INTERFACE_B"),
                     in_ep |-> 4, out_ep |-> 131]
               [] it = "INTERFACE_C" ->
                    [interface |-> 2, index |-> InterfaceIndex("INTERFACE_C"),
                     in_ep |-> 6, out_ep |-> 133]
               [] it = "INTERFACE_D" ->
                    [interface |-> 3, index |-> InterfaceIndex("INTERFACE_D"),
                     in_ep |-> 8, out_ep |-> 135]
    IN Ret([s EXCEPT !.interface = t.interface, !.index = t.index,
                     !.in_ep = t.in_ep, !.out_ep = t.out_ep,
                     !.bitbang_mode = 1], "ok", 0)

(***************************************************************************)
(* Reset and the flush family.  ok: the control transfer did not fail.     *)
(***************************************************************************)
ftdi_usb_reset_keep(s, ok) ==
    IF ~check_usb_device(s) THEN Ret(s, "no_dev", 0)
    ELSE IF ~ok THEN Ret(s, "cmd_err", 1)
    ELSE Ret(s, "ok", 1)

ftdi_usb_reset(s, ok) ==
    IF ~check_usb_device(s) THEN Ret(s, "no_dev", 0)
    ELSE IF ~ok THEN Ret(s, "cmd_err", 1)
    ELSE Ret([s EXCEPT !.readbuffer_offset = 0, !.readbuffer_remaining = 0], "ok", 1)

ftdi_tciflush_keep(s, ok) ==
    IF ~check_usb_device(s) THEN Ret(s, "no_dev", 0)
    ELSE IF ~ok THEN Ret(s, "cmd_err", 1)
    ELSE Ret([s EXCEPT !.readbuffer_remaining = 0], "ok", 1)

ftdi_tciflush(s, ok) ==
    IF ~check_usb_device(s) THEN Ret(s, "no_dev", 0)
    ELSE IF ~ok THEN Ret(s, "cmd_err", 1)
    ELSE Ret([s EXCEPT !.readbuffer_offset = 0, !.readbuffer_remaining = 0], "ok", 1)

ftdi_usb_purge_rx_buffer(s, ok) ==
    IF ~check_usb_device(s) THEN Ret(s, "no_dev", 0)
    ELSE IF ~ok THEN Ret(s, "cmd_err", 1)
    ELSE Ret([s EXCEPT !.readbuffer_offset = 0, !.readbuffer_remaining = 0], "ok", 1)

\* lines 789-791 reset the read-buffer counters in the TX flush as well
ftdi_tcoflush(s, ok) ==
    IF ~check_usb_device(s) THEN Ret(s, "no_dev", 0)
    ELSE IF ~ok THEN Ret(s, "cmd_err", 1)
    ELSE Ret([s EXCEPT !.readbuffer_offset = 0, !.readbuffer_remaining = 0], "ok", 1)

ftdi_usb_purge_tx_buffer(s, ok) ==
    IF ~check_usb_device(s) THEN Ret(s, "no_dev", 0)
    ELSE IF ~ok THEN Ret(s, "cmd_err", 1)
    ELSE Ret(s, "ok", 1)

\* the second of two chained operations, run only when the first succeeded
Then(a, b) == IF a.res # "ok" THEN a ELSE Ret(b.s, b.res, a.ctrl + b.ctrl)

ftdi_tcioflush(s, ok1, ok2) ==
    IF ~check_usb_device(s) THEN Ret(s, "no_dev", 0)
    ELSE LET a == ftdi_tcoflush(s, ok1) IN Then(a, ftdi_tciflush(a.s, ok2))

ftdi_usb_purge_buffers(s, ok1, ok2) ==
    IF ~check_usb_device(s) THEN Ret(s, "no_dev", 0)
    ELSE LET a == ftdi_usb_purge_rx_buffer(s, ok1)
         IN Then(a, ftdi_usb_purge_tx_buffer(a.s, ok2))

(***************************************************************************)
(* Opening a device.  d is the device's descriptors as the transport       *)
(* reports them, h the handle libusb_open gives, t the outcomes of the     *)
(* transport calls: t.fail names the first call that fails ("none" when    *)
(* none does), t.detach is the result of the kernel-driver detach call,    *)
(* t.probe the outcome of the descriptor queries of the packet-size probe. *)
(***************************************************************************)
LIBUSB_ERROR_ACCESS == 0 - 3
LIBUSB_ERROR_NOT_FOUND == 0 - 5
DetachResults == {0, LIBUSB_ERROR_ACCESS, LIBUSB_ERROR_NOT_FOUND}

OpenFailPoints == {"none", "open", "desc", "cfgdesc", "getcfg", "setcfg", "reset", "baud"}
ProbeOutcomes == {"ok", "desc_failed", "cfgdesc_failed"}
\* the detach result is looked at only when set-configuration is reached,
\* the probe runs only when the reset and the chip lookup are passed
OpenOutcomes ==
    {t \in [fail : OpenFailPoints, detach : DetachResults, probe : ProbeOutcomes] :
        /\ t.fail \notin {"none", "setcfg"} => t.detach = 0
        /\ t.fail \notin {"none", "baud"} => t.probe = "ok"}

\* bcdDevice values: the eight the lookup knows and one it does not
BcdValues == {512, 1024, 1280, 1536, 1792, 2048, 2304, 4096, 768}

BaseDescriptor ==
    [bcdDevice |-> 1536, iSerialNumber |-> 3, bNumConfigurations |-> 1,
     bConfigurationValue |-> 1, bNumInterfaces |-> 1, num_altsetting |-> 1,
     bNumEndpoints |-> 2, wMaxPacketSize |-> 64]

Descriptors ==
    {[BaseDescriptor EXCEPT !.bcdDevice = b] : b \in BcdValues}
    \cup {[BaseDescriptor EXCEPT !.bcdDevice = 512, !.iSerialNumber = 0],
          [BaseDescriptor EXCEPT !.bNumConfigurations = 0],
          [BaseDescriptor EXCEPT !.bConfigurationValue = 0],
          [BaseDescriptor EXCEPT !.bNumInterfaces = 2],
          [BaseDescriptor EXCEPT !.num_altsetting = 0],
          [BaseDescriptor EXCEPT !.bNumEndpoints = 0],
          [BaseDescriptor EXCEPT !.wMaxPacketSize = 4],
          [BaseDescriptor EXCEPT !.bcdDevice = 1792, !.bNumEndpoints = 0]}

\* GuessChipType without the rule for the BM chips that report 0x200
GuessChipType_noserial(d) ==
    IF d.bcdDevice = 1024 THEN "TYPE_BM"
    ELSE IF d.bcdDevice = 512 THEN "TYPE_AM"
    ELSE IF d.bcdDevice = 1280 THEN "TYPE_2232C"
    ELSE IF d.bcdDevice = 1536 THEN "TYPE_R"
    ELSE IF d.bcdDevice = 1792 THEN "TYPE_2232H"
    ELSE IF d.bcdDevice = 2048 THEN "TYPE_4232H"
    ELSE IF d.bcdDevice = 2304 THEN "TYPE_232H"
    ELSE IF d.bcdDevice = 4096 THEN "TYPE_230X"
    ELSE "unknown"

\* the chip family of a descriptor, "unknown" when the lookup has no entry
GuessChipType(d) ==
    IF d.bcdDevice = 1024 \/ (d.bcdDevice = 512 /\ d.iSerialNumber = 0) THEN "TYPE_BM"
    ELSE IF d.bcdDevice = 512 THEN "TYPE_AM"
    ELSE IF d.bcdDevice = 1280 THEN "TYPE_2232C"
    ELSE IF d.bcdDevice = 1536 THEN "TYPE_R"
    ELSE IF d.bcdDevice = 1792 THEN "TYPE_2232H"
    ELSE IF d.bcdDevice = 2048 THEN "TYPE_4232H"
    ELSE IF d.bcdDevice = 2304 THEN "TYPE_232H"
    ELSE IF d.bcdDevice = 4096 THEN "TYPE_230X"
    ELSE "unknown"

ftdi_determine_max_packet_size(s, d, probe) ==
    LET default == IF s.type \in HChips THEN PACKET_SIZE_H ELSE PACKET_SIZE_FS IN
    IF probe # "ok" THEN default
    ELSE IF /\ d.bNumConfigurations > 0
            /\ s.interface < d.bNumInterfaces
            /\ d.num_altsetting > 0
            /\ d.bNumEndpoints > 0
         THEN d.wMaxPacketSize
         ELSE default

\* ftdi_set_baudrate that programs the chip and does not record the rate
ftdi_set_baudrate_forget(s, rate, ok) ==
    IF ~check_usb_device(s) THEN Ret(s, "no_dev", 0)
    ELSE LET baudrate == IF s.bitbang_enabled THEN rate * 4 ELSE rate
             c == ftdi_convert_baudrate(s.type, s.index, baudrate)
         IN IF c.best_baud <= 0 THEN Ret(s, "silly_baudrate", 0)
            ELSE IF BaudrateRefused(c.best_baud, baudrate)
                 THEN Ret(s, "unsupported_baudrate", 0)
            ELSE IF ~ok THEN Ret(s, "cmd_err", 1)
            ELSE Ret(s, "ok", 1)

\* ftdi_set_baudrate that records the rate before the control transfer
ftdi_set_baudrate_early(s, rate, ok) ==
    IF ~check_usb_device(s) THEN Ret(s, "no_dev", 0)
    ELSE LET baudrate == IF s.bitbang_enabled THEN rate * 4 ELSE rate
             c == ftdi_convert_baudrate(s.type, s.index, baudrate)
         IN IF c.best_baud <= 0 THEN Ret(s, "silly_baudrate", 0)
            ELSE IF BaudrateRefused(c.best_baud, baudrate)
                 THEN Ret(s, "unsupported_baudrate", 0)
            ELSE IF ~ok THEN Ret([s EXCEPT !.baudrate = baudrate], "cmd_err", 1)
            ELSE Ret([s EXCEPT !.baudrate = baudrate], "ok", 1)

\* rate * 4 of line 1029 is an i32 product: it wraps when it overflows
ftdi_set_baudrate(s, rate, ok) ==
    IF ~check_usb_device(s) THEN Ret(s, "no_dev", 0)
    ELSE LET baudrate == IF s.bitbang_enabled THEN MulI32(rate, 4).wrapped ELSE rate
             c == ftdi_convert_baudrate(s.type, s.index, baudrate)
         IN IF c.best_baud <= 0 THEN Ret(s, "silly_baudrate", 0)
            ELSE IF BaudrateRefused(c.best_baud, baudrate)
                 THEN Ret(s, "unsupported_baudrate", 0)
            \* the control transfer of lines 1053-1059
            ELSE IF ~ok
            THEN Ret(s, "cmd_err", 1) @@ [request |-> "SIO_SET_BAUDRATE_REQUEST"]
            ELSE Ret([s EXCEPT !.baudrate = baudrate], "ok", 1)
                 @@ [request |-> "SIO_SET_BAUDRATE_REQUEST"]

\* the i32 products of lines 992 and 1041-1045 on the effective request and
\* the achievable rate: TRUE when one of them leaves the range of i32
BaudrateOverflows(type, baudrate, actual) ==
    \/ baudrate > 0 /\ type \in HChips /\ MulI32(baudrate, 10).overflow
    \/ /\ actual > 0
       /\ \/ MulI32(actual, 2).overflow
          \/ IF actual < baudrate
             THEN MulI32(actual, 21).overflow \/ MulI32(baudrate, 20).overflow
             ELSE MulI32(baudrate, 21).overflow \/ MulI32(actual, 20).overflow

\* TRUE when one of the i32 products ftdi_set_baudrate(rate) computes on
\* the session s leaves the range of i32: rate * 4 of line 1029, or one of
\* BaudrateOverflows on the request as the build without overflow checks
\* goes on with it
SetBaudrateOverflows(s, rate) ==
    /\ check_usb_device(s)
    /\ \/ s.bitbang_enabled /\ MulI32(rate, 4).overflow
       \/ LET baudrate == IF s.bitbang_enabled THEN MulI32(rate, 4).wrapped ELSE rate
          IN BaudrateOverflows(s.type, baudrate,
                               ftdi_convert_baudrate(s.type, s.index, baudrate).best_baud)

\* ftdi_usb_open_dev from line 460 on: the handle is stored, the chip is reset,
\* the chip family and the packet size are set, the default rate is programmed
OpenDevTail(s, h, d, t) ==
    LET r == ftdi_usb_reset([s EXCEPT !.usb_dev = h], t.fail # "reset") IN
    IF r.res # "ok" THEN r
    ELSE IF GuessChipType(d) = "unknown" THEN Ret(r.s, "unknown_chip", r.ctrl)
    ELSE LET s3 == [r.s EXCEPT !.type = GuessChipType(d)]
             s4 == [s3 EXCEPT
                      !.max_packet_size = ftdi_determine_max_packet_size(s3, d, t.probe)]
             b == ftdi_set_baudrate(s4, DEFAULT_BAUDRATE, t.fail # "baud")
         IN Ret(b.s, b.res, r.ctrl + b.ctrl)

\* stray: the handles the call leaves open in the transport that are not
\* the session's handle: the one of libusb_open (line 384) when the call
\* returns before storing it, the session's former one when line 460
\* overwrites it
ftdi_usb_open_dev(s, h, d, t) ==
    IF ~check_usb_context_initialized(s) THEN Ret(s, "no_ctx", 0) @@ [stray |-> 0]
    ELSE IF t.fail = "open" THEN Ret(s, "open_failed", 0) @@ [stray |-> 0]
    ELSE IF t.fail = "desc" THEN Ret(s, "desc_failed", 0) @@ [stray |-> 1]
    ELSE IF t.fail = "cfgdesc" THEN Ret(s, "cfgdesc_failed", 0) @@ [stray |-> 1]
    ELSE LET detach_errno ==
                 IF s.module_detach_mode \in {"AUTO_DETACH_SIO_MODULE",
                                              "AUTO_DETACH_REATACH_SIO_MODULE"}
                 THEN t.detach ELSE 0
             \* cfg is the null pointer, compared with cfg0 cast to a pointer
             set_config == d.bNumConfigurations > 0 /\ 0 # d.bConfigurationValue
         IN IF t.fail = "getcfg" THEN Ret(s, "getcfg_failed", 0) @@ [stray |-> 1]
            ELSE IF set_config /\ t.fail = "setcfg"
                 THEN IF detach_errno = EPERM
                      THEN Ret(s, "permission_denied", 0) @@ [stray |-> 1]
                      ELSE Ret(s, "setcfg_failed", 0) @@ [stray |-> 1]
            ELSE OpenDevTail(s, h, d, t)
                 @@ [stray |-> IF s.usb_dev # NoHandle THEN 1 ELSE 0]

\* ftdi_usb_get_strings: opens the device when the session has no handle
ftdi_usb_get_strings(s, h, open_ok) ==
    IF s.usb_dev = NoHandle
    THEN IF ~open_ok THEN Ret(s, "open_failed", 0) @@ [stray |-> 0]
         ELSE Ret([s EXCEPT !.usb_dev = h], "ok", 0) @@ [stray |-> 0]
    ELSE Ret(s, "ok", 0) @@ [stray |-> 0]

(***************************************************************************)
(* Opening by vendor / product / description / serial / index, and by a   *)
(* description string.  The enumeration (ftdi_device_list::new) gives the  *)
(* attached devices in order, or fails.                                    *)
(***************************************************************************)
\* most devices in an enumeration
MaxDevices == 2
\* largest index asked for
MaxIndex == 2

FTDI_VENDOR == 1027
FT232_PRODUCT == 24577
\* a string descriptor that could not be fetched, an Option that is None
NoString == "None"

\* an attached FT232R, and the ways a device differs from it for the filters
BaseDevice ==
    [idVendor |-> FTDI_VENDOR, idProduct |-> FT232_PRODUCT, has_descriptor |-> TRUE,
     open_ok |-> TRUE, product |-> "FT232R", serial |-> "A1"]

DeviceKinds ==
    {BaseDevice,
     [BaseDevice EXCEPT !.idVendor = 1],
     [BaseDevice EXCEPT !.has_descriptor = FALSE],
     [BaseDevice EXCEPT !.open_ok = FALSE],
     [BaseDevice EXCEPT !.product = "Other"],
     [BaseDevice EXCEPT !.serial = "B2"],
     [BaseDevice EXCEPT !.product = NoString, !.serial = NoString]}

DeviceLists == UNION {[1..n -> DeviceKinds] : n \in 0..MaxDevices}

\* the enumeration collaborator: the list of the attached devices and their
\* number, or a failure
ftdi_device_list_new(list_ok, devs) ==
    IF list_ok
    THEN [ok |-> TRUE, system_device_list |-> devs, number_found_devices |-> Len(devs)]
    ELSE [ok |-> FALSE, system_device_list |-> << >>, number_found_devices |-> 0]

\* the handle libusb_open gives for the i-th device of the enumeration
HandleOf(i) == i

\* one pass of the for loop of lines 534-587 over the i-th device; st is
\* index, usb_dev_index and the handles opened and not closed
DescIndexPass(dev, i, vendor, product, description, serial, st) ==
    LET wanted == /\ vendor > 0
                  /\ product > 0
                  /\ dev.idVendor = vendor
                  /\ dev.idProduct = product
        opened == dev.has_descriptor /\ wanted /\ dev.open_ok
        \* lines 563-576: the handle is closed and the loop continues
        skipped ==
            /\ opened
            /\ \/ (description # NoString /\ dev.product # NoString
                   /\ description # dev.product)
               \/ (serial # NoString /\ dev.serial # NoString /\ serial # dev.serial)
        \* lines 581-586
        closed == st.index > 0 /\ opened
    IN IF skipped THEN st
       ELSE [index |-> IF st.index > 0 THEN st.index - st.index ELSE st.index,
             usb_dev_index |-> st.usb_dev_index + (IF dev.has_descriptor THEN 1 ELSE 0),
             left_open |-> IF opened /\ ~closed
                           THEN st.left_open \cup {HandleOf(i)} ELSE st.left_open]

RECURSIVE DescIndexLoop(_, _, _, _, _, _, _)
DescIndexLoop(devs, i, vendor, product, description, serial, st) ==
    IF i > Len(devs) THEN st
    ELSE DescIndexLoop(devs, i + 1, vendor, product, description, serial,
                       DescIndexPass(devs[i], i, vendor, product, description, serial, st))

\* the loop leaves the session as it was (the assignment of usb_dev is
\* commented out, line 560) and the function returns Ok after it; stray:
\* the handles the loop opened and did not close
ftdi_usb_open_desc_index(s, list_ok, devs, vendor, product, description, serial, index) ==
    LET device_list == ftdi_device_list_new(list_ok, devs) IN
    IF ~device_list.ok THEN Ret(s, "list_failed", 0) @@ [stray |-> 0]
    ELSE LET st == DescIndexLoop(device_list.system_device_list, 1, vendor, product,
                                 description, serial,
                                 [index |-> index, usb_dev_index |-> 0, left_open |-> {}])
         IN Ret(s, "ok", 0) @@ [stray |-> Cardinality(st.left_open)]

\* env: the enumeration, the place in it of the device with the bus number
\* and address asked for (0: none has them), and what ftdi_usb_open_dev
\* meets on it (h, d, t).  After the loop the function returns Ok
ftdi_usb_open_bus_addr(s, env) ==
    IF ~ftdi_device_list_new(env.list_ok, env.devs).ok
    THEN Ret(s, "list_failed", 0) @@ [stray |-> 0]
    ELSE IF env.found \in 1..Len(env.devs)
         THEN ftdi_usb_open_dev(s, env.h, env.d, env.t)
         ELSE Ret(s, "ok", 0) @@ [stray |-> 0]

\* A description string is the sequence of its characters (text), kept
\* with what its writer means by it: its shape, the numbers and the serial
Described(shape, text, numbers, serial) ==
    [shape |-> shape, text |-> text, numbers |-> numbers, serial |-> serial]

StartsWith(str, prefix) ==
    Len(str) >= Len(prefix) /\ SubSeq(str, 1, Len(prefix)) = prefix

\* str.splitn(4, sep): at most four pieces, the last one keeping the rest
\* of the string with its separators
Split_n4(str, sep) ==
    LET f[i \in 0..Len(str)] ==
            IF i = 0 THEN << << >> >>
            ELSE LET pieces == f[i - 1] IN
                 IF str[i] = sep /\ Len(pieces) < 4 THEN Append(pieces, << >>)
                 ELSE [pieces EXCEPT ![Len(pieces)] = Append(@, str[i])]
    IN f[Len(str)]

\* str.split(sep): the pieces between the separators, one more than there
\* are separators
Split(str, sep) ==
    LET f[i \in 0..Len(str)] ==
            IF i = 0 THEN << << >> >>
            ELSE LET pieces == f[i - 1] IN
                 IF str[i] = sep THEN Append(pieces, << >>)
                 ELSE [pieces EXCEPT ![Len(pieces)] = Append(@, str[i])]
    IN f[Len(str)]

\* u16::from_str_radix that reads every number as decimal
FromStrRadix_decimal(str, radix) ==
    LET digits == IF str # << >> /\ str[1] = "+" THEN Tail(str) ELSE str
        DigitChars == <<"0", "1", "2", "3", "4", "5", "6", "7", "8", "9">>
        value(c) ==
            IF \E k \in 1..10 : DigitChars[k] = c
            THEN (CHOOSE k \in 1..10 : DigitChars[k] = c) - 1
            ELSE 0 - 1
        acc[i \in 0..Len(digits)] ==
            IF i = 0 THEN 0
            ELSE LET sum == acc[i - 1] * 10 + value(digits[i]) IN
                 IF sum < 0 \/ value(digits[i]) < 0 \/ sum >= Pow2_16 THEN 0 - 1
                 ELSE sum
    IN IF digits = << >> THEN [ok |-> FALSE, value |-> 0]
       ELSE [ok |-> acc[Len(digits)] >= 0, value |-> acc[Len(digits)]]

\* u16::from_str_radix: an optional +, then at least one digit of the radix,
\* the value below 2^16
FromStrRadix(str, radix) ==
    LET digits == IF str # << >> /\ str[1] = "+" THEN Tail(str) ELSE str
        DigitChars == <<"0", "1", "2", "3", "4", "5", "6", "7", "8", "9",
                        "a", "b", "c", "d", "e", "f">>
        UpperChars == <<"A", "B", "C", "D", "E", "F">>
        digit(c) ==
            IF \E k \in 1..16 : DigitChars[k] = c
            THEN (CHOOSE k \in 1..16 : DigitChars[k] = c) - 1
            ELSE IF \E k \in 1..6 : UpperChars[k] = c
            THEN (CHOOSE k \in 1..6 : UpperChars[k] = c) + 9
            ELSE 0 - 1
        value(c) == IF digit(c) < radix THEN digit(c) ELSE 0 - 1
        acc[i \in 0..Len(digits)] ==
            IF i = 0 THEN 0
            ELSE LET sum == acc[i - 1] * radix + value(digits[i]) IN
                 IF sum < 0 \/ value(digits[i]) < 0 \/ sum >= Pow2_16 THEN 0 - 1
                 ELSE sum
    IN IF digits = << >> THEN [ok |-> FALSE, value |-> 0]
       ELSE [ok |-> acc[Len(digits)] >= 0, value |-> acc[Len(digits)]]

\* one pass of the for loop of lines 1282-1327 over one piece: the piece is
\* skipped, gives a number, or ends the parse with an error
ParseItem(one_item) ==
    LET \* trim_start_matches takes every leading repetition of the prefix
        trimmed(prefix) ==
            LET N == {n \in 0..(Len(one_item) \div 2) :
                        \A k \in 0..(n - 1) :
                            SubSeq(one_item, 2 * k + 1, 2 * k + 2) = prefix}
                n == CHOOSE n \in N : \A m \in N : m <= n
            IN SubSeq(one_item, 2 * n + 1, Len(one_item))
        number(parse_result, err) ==
            IF parse_result.ok THEN [kind |-> "number", value |-> parse_result.value]
            ELSE [kind |-> err, value |-> 0]
    IN IF StartsWith(one_item, <<"s">>) \/ StartsWith(one_item, <<"i">>)
       THEN [kind |-> "skipped", value |-> 0]
       ELSE IF StartsWith(one_item, <<"0", "x">>)
       THEN number(FromStrRadix(trimmed(<<"0", "x">>), 16), "hex_err")
       ELSE IF StartsWith(one_item, <<"0", "o">>)
       THEN number(FromStrRadix(trimmed(<<"0", "o">>), 8), "octal_err")
       ELSE number(FromStrRadix(one_item, 10), "decimal_err")

\* parse_vendor_product_index: the numbers of the description, or the
\* first error
parse_vendor_product_index(description) ==
    LET device_name_parts == Split(description, ":")
        vector_size == Len(device_name_parts)
        items == [k \in 1..vector_size |-> ParseItem(device_name_parts[k])]
        bad == {k \in 1..vector_size : items[k].kind \notin {"skipped", "number"}}
        result_vec[k \in 0..vector_size] ==
            IF k = 0 THEN << >>
            ELSE IF items[k].kind = "number" THEN Append(result_vec[k - 1], items[k].value)
            ELSE result_vec[k - 1]
    IN IF Len(description) = 0 \/ \A k \in 1..Len(description) : description[k] # ":"
       THEN [res |-> "illegal_format", parts |-> << >>]
       ELSE IF vector_size <= 2 THEN [res |-> "too_short", parts |-> << >>]
       ELSE IF vector_size >= 5 THEN [res |-> "too_long", parts |-> << >>]
       ELSE IF bad # {}
       THEN [res |-> items[CHOOSE k \in bad : \A m \in bad : k <= m].kind,
             parts |-> << >>]
       ELSE [res |-> "ok", parts |-> result_vec[vector_size]]

\* the scan of a d: description for bus and address: both are found in
\* d:<bus>/<address> with two decimal numbers
ScanBusAddr(description) ==
    LET pieces == Split(description, "/") IN
    /\ Len(pieces) = 2
    /\ StartsWith(pieces[1], <<"d", ":">>)
    /\ FromStrRadix(SubSeq(pieces[1], 3, Len(pieces[1])), 10).ok
    /\ FromStrRadix(pieces[2], 10).ok

\* env: the enumeration (list_ok, devs), the place in it of the device at
\* the bus and address asked for (0: none), and what ftdi_usb_open_dev
\* meets on it (h, d, t)
ftdi_usb_open_string(s, description, env) ==
    \* the returns of ftdi_usb_open_string itself open no handle
    LET Own(r) == [s |-> s, res |-> r, ctrl |-> 0, stray |-> 0] IN
    IF ~check_usb_context_initialized(s) THEN Own("no_ctx")
    ELSE IF Len(description) = 0 \/ \A k \in 1..Len(description) : description[k] # ":"
    THEN Own("illegal_format")
    ELSE IF StartsWith(description, <<"d">>)
    THEN IF ~ScanBusAddr(description) THEN Own("illegal_format")
         ELSE IF ~ftdi_device_list_new(env.list_ok, env.devs).ok
              THEN Own("list_failed")
         ELSE IF env.found \in 1..Len(env.devs)
              THEN ftdi_usb_open_dev(s, env.h, env.d, env.t)
              ELSE Own("not_found")
    ELSE IF StartsWith(description, <<"i">>) \/ StartsWith(description, <<"s">>)
    THEN LET parsed == parse_vendor_product_index(description) IN
         IF parsed.res # "ok" THEN Own(parsed.res)
         ELSE IF Len(parsed.parts) = 2
              THEN ftdi_usb_open_desc_index(s, env.list_ok, env.devs, parsed.parts[1],
                                            parsed.parts[2], NoString, NoString, 0)
         ELSE IF Len(parsed.parts) = 3
              THEN ftdi_usb_open_desc_index(s, env.list_ok, env.devs, parsed.parts[1],
                                            parsed.parts[2], NoString, NoString,
                                            parsed.parts[3])
         ELSE Own("ok")
    ELSE Own("illegal_format")

(***************************************************************************)
(* Line properties, the chip id and the submission of an asynchronous      *)
(* read.                                                                   *)
(***************************************************************************)
ParityCode(parity) ==
    CASE parity = "NONE" -> 0
      [] parity = "ODD" -> 1
      [] parity = "EVEN" -> 2
      [] parity = "MARK" -> 3
      [] parity = "SPACE" -> 4

StopBitsCode(sbit) ==
    CASE sbit = "STOP_BIT_1" -> 0
      [] sbit = "STOP_BIT_15" -> 1
      [] sbit = "STOP_BIT_2" -> 2

BreakCode(break_type) == IF break_type = "BREAK_ON" THEN 1 ELSE 0

\* LinePropertyValue with the stop bits one place too high
LinePropertyValue_stop12(bits, sbit, parity, break_type) ==
    BitOr(BitOr(BitOr(AsU16(bits), ParityCode(parity) * 256),
                StopBitsCode(sbit) * 4096),
          BreakCode(break_type) * 16384)

\* lines 1093-1112: the value word, bits being the number of data bits
LinePropertyValue(bits, sbit, parity, break_type) ==
    BitOr(BitOr(BitOr(AsU16(bits), ParityCode(parity) * 256),
                StopBitsCode(sbit) * 2048),
          BreakCode(break_type) * 16384)

\* wValue: the value word of the control transfer, 0 when none is issued;
\* request: the request code it carries, by its name in the code (line 1117)
ftdi_set_line_property2(s, bits, sbit, parity, break_type, ok) ==
    LET value == LinePropertyValue(bits, sbit, parity, break_type) IN
    IF ~check_usb_device(s) THEN Ret(s, "no_dev", 0) @@ [wValue |-> 0, request |-> "none"]
    ELSE IF ~ok
    THEN Ret(s, "cmd_err", 1) @@ [wValue |-> value, request |-> "SIO_SET_BAUDRATE_REQUEST"]
    ELSE Ret(s, "ok", 1) @@ [wValue |-> value, request |-> "SIO_SET_BAUDRATE_REQUEST"]

ftdi_set_line_property(s, bits, sbit, parity, ok) ==
    ftdi_set_line_property2(s, bits, sbit, parity, "BREAK_OFF", ok)

\* a bit permutation that rotates the byte left by one bit
ftdi_read_chipid_shift_rot(value) ==
    LET bit(k) == (value \div (2 ^ k)) % 2 IN
    bit(0) * 2 + bit(1) * 4 + bit(2) * 8 + bit(3) * 16
    + bit(4) * 32 + bit(5) * 64 + bit(6) * 128 + bit(7) * 1

\* the bits 0..7 of value moved to the places 1, 6, 0, 7, 3, 4, 2, 5; the
\* bits above bit 7 are masked away
ftdi_read_chipid_shift(value) ==
    LET bit(k) == (value \div (2 ^ k)) % 2 IN
    bit(0) * 2 + bit(1) * 64 + bit(2) * 1 + bit(3) * 128
    + bit(4) * 8 + bit(5) * 16 + bit(6) * 4 + bit(7) * 32

\* n1, n2: the results of the two EEPROM reads, 2 when both bytes came;
\* word_a, word_b: the 16-bit words the device sends, low byte first.
\* a and b are one byte each (c_uchar) and each read writes 2 bytes at
\* their address: the second byte falls on whatever follows the variable,
\* which layout chooses (b, a, or neither of the two).
\* chipid: the u16 returned, 0 on failure
ftdi_read_chipid(s, n1, n2, word_a, word_b, layout) ==
    LET a_read == word_a % 256
        a_swapped == BitOr(AsU16(a_read * 256), a_read \div 256) % 256
        \* the second read overwrites b, and with it a stray byte of the first
        b_read == word_b % 256
        a_stray == IF layout = "a_after_b" THEN word_b \div 256 ELSE a_swapped
        b_swapped == AsU16(BitOr(AsU16(b_read * 256), b_read \div 256)) % 256
        a_joined == BitOr(a_stray * Pow2_16, BitAnd(b_swapped, Pow2_16 - 1)) % 256
        a_shifted ==
            BitOr(BitOr(ftdi_read_chipid_shift(a_joined),
                        ftdi_read_chipid_shift(a_joined \div 256) * 256),
                  BitOr(ftdi_read_chipid_shift(a_joined \div Pow2_16) * Pow2_16,
                        ftdi_read_chipid_shift(a_joined \div (256 * Pow2_16))
                            * 256 * Pow2_16)) % 256
        \* (a ^ 0xa5f0f7d1) as u16: a is a byte, the low 16 bits are 0xf7d1
        chipid == AsU16(a_shifted + 63441 - 2 * BitAnd(a_shifted, 63441))
    IN IF ~check_usb_device(s) THEN Ret(s, "no_dev", 0) @@ [chipid |-> 0]
       ELSE IF n1 # 2 THEN Ret(s, "cmd_err", 1) @@ [chipid |-> 0]
       ELSE IF n2 # 2 THEN Ret(s, "cmd_err", 2) @@ [chipid |-> 0]
       ELSE Ret(s, "ok", 2) @@ [chipid |-> chipid]

\* DropCalls that exits the context before it closes the handle
DropCalls_exit_first(s) ==
    (IF s.usb_ctx THEN <<"libusb_exit">> ELSE << >>)
    \o (IF s.usb_dev # NoHandle THEN <<"libusb_close", "libusb_release_interface">>
        ELSE << >>)

\* impl Drop: the transport calls it makes on the session s, in order
DropCalls(s) ==
    (IF s.usb_dev # NoHandle THEN <<"libusb_close", "libusb_release_interface">>
     ELSE << >>)
    \o (IF s.usb_ctx THEN <<"libusb_exit">> ELSE << >>)

\* impl Drop: the handle is closed and forgotten, the context is exited
ftdi_context_drop(s) == [s EXCEPT !.usb_dev = NoHandle]

\* ftdi_read_data_submit takes the session by value: whatever it returns,
\* the session is dropped when it returns.  With a device it reaches
\* unimplemented!() and panics
ftdi_read_data_submit(s) ==
    IF ~check_usb_device(s) THEN Ret(ftdi_context_drop(s), "no_dev", 0)
    ELSE Ret(ftdi_context_drop(s), "panic", 0)

(***************************************************************************)
(* PacketReassembler: the buffer handling of ftdi_read_data_callback.      *)
(***************************************************************************)
\* tag of a status byte; a payload byte carries its serial number (1, 2, ...)
\* within the transfer; 0 is a byte of the buffer never written
STATUS == 0 - 1

\* number of payload bytes among the first n bytes of a raw transfer made of
\* packets of pp bytes, each starting with STATUS_BYTES status bytes
PayloadBefore(n, pp) ==
    LET full == n \div pp
        part == n % pp
    IN full * (pp - STATUS_BYTES) + (IF part > STATUS_BYTES THEN part - STATUS_BYTES ELSE 0)

\* the i-th raw byte (i = 1, 2, ...) of a completed bulk read
RawByte(i, pp) == IF (i - 1) % pp < STATUS_BYTES THEN STATUS ELSE PayloadBefore(i, pp)

\* the raw bytes of a completed bulk read of L bytes
RawTransfer(L, pp) == [i \in 1..L |-> RawByte(i, pp)]

\* the payload of that transfer: its non-status bytes in order
PayloadOf(L, pp) == [k \in 1..PayloadBefore(L, pp) |-> k]

\* ReassembledLength with the dropped partial packet left in the length
ReassembledLength_partial(L, P) ==
    IF L > 2
    THEN LET num_of_chunks == L \div P
             chunk_remains == L % P
             a == L - 2
         IN IF a > P - 2
            THEN IF chunk_remains > 2
                 THEN a - 2 * num_of_chunks
                 ELSE a - 2 * (num_of_chunks - 1)
            ELSE a
    ELSE L

\* actual_length as the callback computes it (lines 1179-1210), for a
\* transfer of L bytes and packet_size P > 0
ReassembledLength(L, P) ==
    IF L > 2
    THEN LET num_of_chunks == L \div P
             chunk_remains == L % P
             a == L - 2
         IN IF a > P - 2
            THEN IF chunk_remains > 2
                 THEN a - 2 * num_of_chunks
                 ELSE a - (2 * (num_of_chunks - 1) + chunk_remains)
            ELSE a
    ELSE L

\* the buffer handling under the session lock: the session left, the length
\* computed, and whether the division by packet_size panicked
CallbackBuffer(s, L) ==
    IF L > 2
    THEN IF s.max_packet_size = 0
         THEN [s |-> s, actual_length |-> L, panic |-> TRUE]
         ELSE [s |-> [s EXCEPT !.readbuffer_offset = @ + 2],
               actual_length |-> ReassembledLength(L, s.max_packet_size),
               panic |-> FALSE]
    ELSE [s |-> s, actual_length |-> L, panic |-> FALSE]

\* lines 1192-1205: the copies that would compact the buffer are commented
\* out, the buffer is left as the transport filled it
CompactBuffer(buf, s, L) == buf

(***************************************************************************)
(* State.                                                                  *)
(***************************************************************************)
VARIABLES
    ftdi,        \* the session (ftdi_context)
    readbuffer,  \* ftdi.readbuffer: the bytes of the read buffer
    pre,         \* the read-buffer counters before the last operation
    op,          \* the last operation
    res,         \* its result
    n_ctrl,      \* the control transfers it issued
    w,           \* the ftdi_write_data call in progress or last returned
    cb,          \* the last run of ftdi_read_data_callback
    tc,          \* the transfer control of the asynchronous read
    arg,         \* the arguments of the last operation that property formulas read
    dropped,     \* the session was moved into a call and dropped there
    teardown     \* the transport calls impl Drop made, in order

vars == <<ftdi, readbuffer, pre, op, res, n_ctrl, w, cb, tc, arg, dropped, teardown>>

\* lengths of the raw transfers that complete: the short ones, and two full
\* packets of 64 bytes with a trailing partial packet of 0, 2 and 3 bytes
XferLens ==
    (0..MaxXferLen) \cup {2 * PACKET_SIZE_FS, 2 * PACKET_SIZE_FS + 2, 2 * PACKET_SIZE_FS + 3}

\* capacity of the read buffer that the model uses
ReadBufLen == MaxOffset + 2 * PACKET_SIZE_FS + 3

IdleWrite ==
    [pc |-> "idle", len |-> 0, offset |-> 0, at |-> 0, lower |-> 0, size |-> 0,
     issued |-> FALSE, result |-> 0, ntransfers |-> 0, reported |-> 0, ret |-> 0]

NoCallback ==
    [L |-> 0, base |-> 0, locked |-> FALSE, actual_length |-> 0, outcome |-> "none",
     status |-> "none", submits |-> 0, resubmit |-> "no"]

\* arguments of no interest
NoArg ==
    [rate |-> 0, index |-> 0, matches |-> 0, nth |-> NoHandle, bcdDevice |-> 0,
     iSerialNumber |-> 0, bNumConfigurations |-> 0, bConfigurationValue |-> 0,
     fail |-> "none", detach |-> 0, best_baud |-> 0, wValue |-> 0, wIndex |-> 0,
     line |-> << >>, desc |-> Described("none", << >>, << >>, << >>), parts |-> << >>,
     eeprom |-> << >>, n |-> << >>, chipid |-> 0, value |-> 0, shifted |-> 0,
     reshifted |-> 0, stray |-> 0, request |-> "none", overflow |-> FALSE]

Counters(s) ==
    [readbuffer_offset |-> s.readbuffer_offset,
     readbuffer_remaining |-> s.readbuffer_remaining]

\* the state after construction, the session being one of S
InitFrom(S) ==
    /\ ftdi \in S
    /\ readbuffer = << >>
    /\ pre = Counters(ftdi)
    /\ op = "new"
    /\ res = "ok"
    /\ n_ctrl = 0
    /\ w = IdleWrite
    /\ cb = NoCallback
    /\ tc = [completed |-> "unset", poisoned |-> FALSE]
    /\ arg = NoArg
    /\ dropped = FALSE
    /\ teardown = << >>

\* a session as constructed, with one of the chunk sizes K.  bitbang_enabled
\* is a public field that no operation of the session writes: it is the
\* caller's to set, to one of B
InitWith(K, B) ==
    InitFrom({[NewSession(c, k) EXCEPT !.bitbang_enabled = b] :
                 c \in BOOLEAN, k \in K, b \in B})

Init == InitWith({MaxChunk}, {FALSE})

InitWrite == InitWith(1..MaxChunk, {FALSE})

InitBaud == InitWith({MaxChunk}, BOOLEAN)

\* module_detach_mode is a public field as well, the caller's to set
InitDev ==
    InitFrom({[NewSession(c, MaxChunk) EXCEPT !.module_detach_mode = m] :
                 c \in BOOLEAN, m \in DetachModes})

\* no operation of the session starts while a write is running or after a panic
Ready == w.pc \notin {"loop", "panic"} /\ cb.outcome # "panic" /\ ~dropped

\* a synchronous operation of the session, run to completion; a: its
\* arguments as kept for the properties, with the handles the operation
\* left open outside the session (stray) where it can leave any
StepWith(name, r, a) ==
    /\ Ready
    /\ ftdi' = r.s
    /\ pre' = Counters(ftdi)
    /\ op' = name
    /\ res' = r.res
    /\ n_ctrl' = r.ctrl
    /\ w' = IdleWrite
    /\ cb' = NoCallback
    /\ arg' = IF "stray" \in DOMAIN r THEN [a EXCEPT !.stray = r.stray] ELSE a
    /\ UNCHANGED <<readbuffer, tc, dropped, teardown>>

Step(name, r) == StepWith(name, r, NoArg)

(***************************************************************************)
(* The synchronous operations of the session.                              *)
(***************************************************************************)
SetInterfaceTypeOf(ITs) ==
    \E it \in ITs : Step("set_interface_type", set_interface_type(ftdi, it))

SetInterfaceType == SetInterfaceTypeOf(InterfaceTypes)

GetStrings ==
    \E h \in Handles, ok \in BOOLEAN :
        Step("get_strings", ftdi_usb_get_strings(ftdi, h, ok))

OpenDevFrom(D, T) ==
    \E h \in Handles, d \in D, t \in T :
        LET r == ftdi_usb_open_dev(ftdi, h, d, t) IN
        StepWith("open_dev", r,
                 [NoArg EXCEPT !.bcdDevice = d.bcdDevice,
                               !.iSerialNumber = d.iSerialNumber,
                               !.bNumConfigurations = d.bNumConfigurations,
                               !.bConfigurationValue = d.bConfigurationValue,
                               !.fail = t.fail, !.detach = t.detach])

OpenDev == OpenDevFrom(Descriptors, OpenOutcomes)

FlushRx == \E ok \in BOOLEAN : Step("tciflush", ftdi_tciflush(ftdi, ok))

PurgeRx == \E ok \in BOOLEAN : Step("purge_rx", ftdi_usb_purge_rx_buffer(ftdi, ok))

FlushTx == \E ok \in BOOLEAN : Step("tcoflush", ftdi_tcoflush(ftdi, ok))

PurgeTx == \E ok \in BOOLEAN : Step("purge_tx", ftdi_usb_purge_tx_buffer(ftdi, ok))

FlushBoth ==
    \E ok1 \in BOOLEAN, ok2 \in BOOLEAN :
        Step("tcioflush", ftdi_tcioflush(ftdi, ok1, ok2))

PurgeBoth ==
    \E ok1 \in BOOLEAN, ok2 \in BOOLEAN :
        Step("purge_buffers", ftdi_usb_purge_buffers(ftdi, ok1, ok2))

\* the devices of an enumeration that pass every filter supplied, in order
MatchesFilters(dev, vendor, product, description, serial) ==
    /\ dev.has_descriptor
    /\ (vendor > 0 /\ product > 0) => (dev.idVendor = vendor /\ dev.idProduct = product)
    /\ description # NoString => dev.product = description
    /\ serial # NoString => dev.serial = serial

MatchingPlaces(devs, vendor, product, description, serial) ==
    {i \in 1..Len(devs) : MatchesFilters(devs[i], vendor, product, description, serial)}

\* the handle of the n-th (n = 1, 2, ...) of the places P, NoHandle when
\* there are fewer
NthHandle(P, n) ==
    IF \E i \in P : Cardinality({j \in P : j <= i}) = n
    THEN HandleOf(CHOOSE i \in P : Cardinality({j \in P : j <= i}) = n)
    ELSE NoHandle

OpenDescIndexOf(Lists) ==
    \E list_ok \in BOOLEAN, devs \in Lists, vendor \in {0, FTDI_VENDOR},
       description \in {NoString, "FT232R"}, serial \in {NoString, "A1"},
       index \in 0..MaxIndex :
        LET P == MatchingPlaces(devs, vendor, FT232_PRODUCT, description, serial)
            r == ftdi_usb_open_desc_index(ftdi, list_ok, devs, vendor, FT232_PRODUCT,
                                          description, serial, index)
        IN
        StepWith("open_desc_index", r,
                 [NoArg EXCEPT !.index = index, !.matches = Cardinality(P),
                               !.nth = NthHandle(P, index + 1)])

OpenDescIndex == OpenDescIndexOf(DeviceLists)

\* the description strings handed to the parser: the numbers written
\* (0x0403 = 0o2003 = 1027, 0x6001 = 0o60001 = 24577) and the serial
Descriptions ==
    LET VendorTexts ==
            {<<"1", "0", "2", "7">>, <<"0", "x", "0", "4", "0", "3">>,
             <<"0", "o", "2", "0", "0", "3">>}
        ProductTexts ==
            {<<"2", "4", "5", "7", "7">>, <<"0", "x", "6", "0", "0", "1">>,
             <<"0", "o", "6", "0", "0", "0", "1">>}
        IndexTexts == {<<"2">>, <<"0", "x", "2">>, <<"0", "o", "2">>}
        SerialTexts == {<<"A", "B", "C", "1", "2", "3">>, <<"1">>}

        WellFormedDescriptions ==
            {Described("i_vp", <<"i", ":">> \o v \o <<":">> \o p,
                       <<FTDI_VENDOR, FT232_PRODUCT>>, << >>) :
                v \in VendorTexts, p \in ProductTexts}
            \cup {Described("i_vpi", <<"i", ":">> \o v \o <<":">> \o p \o <<":">> \o x,
                            <<FTDI_VENDOR, FT232_PRODUCT, 2>>, << >>) :
                    v \in VendorTexts, p \in ProductTexts, x \in IndexTexts}
            \cup {Described("s_vps", <<"s", ":">> \o v \o <<":">> \o p \o <<":">> \o x,
                            <<FTDI_VENDOR, FT232_PRODUCT>>, x) :
                    v \in VendorTexts, p \in ProductTexts, x \in SerialTexts}
            \cup {Described("d_bus_addr", <<"d", ":", "1", "/", "2">>, << >>, << >>)}

        \* the empty string; i1027; x:1027:24577; i:1:2:3:4, s:1:2:3:4 and
        \* d:1:2:3:4; i:1027; i:1027:i5; d:x; i:0xg:1; i:65536:1
        MalformedDescriptions ==
            {Described("empty", << >>, << >>, << >>),
             Described("no_colon", <<"i", "1", "0", "2", "7">>, << >>, << >>),
             Described("bad_letter",
                       <<"x", ":", "1", "0", "2", "7", ":", "2", "4", "5", "7", "7">>,
                       << >>, << >>),
             Described("five_fields", <<"i", ":", "1", ":", "2", ":", "3", ":", "4">>,
                       << >>, << >>),
             Described("five_fields", <<"s", ":", "1", ":", "2", ":", "3", ":", "4">>,
                       << >>, << >>),
             Described("five_fields_d", <<"d", ":", "1", ":", "2", ":", "3", ":", "4">>,
                       << >>, << >>),
             Described("two_fields", <<"i", ":", "1", "0", "2", "7">>, << >>, << >>),
             Described("skipped_field", <<"i", ":", "1", "0", "2", "7", ":", "i", "5">>,
                       << >>, << >>),
             Described("d_no_address", <<"d", ":", "x">>, << >>, << >>),
             Described("bad_digit", <<"i", ":", "0", "x", "g", ":", "1">>, << >>, << >>),
             Described("too_large", <<"i", ":", "6", "5", "5", "3", "6", ":", "1">>,
                       << >>, << >>)}
    IN WellFormedDescriptions \cup MalformedDescriptions

\* parse_vendor_product_index on a description
ParseDescriptionOf(Descs) ==
    \E desc \in Descs :
        LET parsed == parse_vendor_product_index(desc.text) IN
        StepWith("parse_vendor_product_index", Ret(ftdi, parsed.res, 0),
                 [NoArg EXCEPT !.desc = desc, !.parts = parsed.parts])

OpenStringOf(Descs, Lists, D, T) ==
    \E desc \in Descs, list_ok \in BOOLEAN, devs \in Lists, found \in 0..1,
       h \in Handles, d \in D, t \in T :
        LET r == ftdi_usb_open_string(ftdi, desc.text,
                     [list_ok |-> list_ok, devs |-> devs, found |-> found,
                      h |-> h, d |-> d, t |-> t])
        IN
        StepWith("open_string", r, [NoArg EXCEPT !.desc = desc])

\* matches: the devices of the enumeration with the bus and address
OpenBusAddrOf(Lists, D, T) ==
    \E list_ok \in BOOLEAN, devs \in Lists, found \in 0..1,
       h \in Handles, d \in D, t \in T :
        LET r == ftdi_usb_open_bus_addr(ftdi,
                     [list_ok |-> list_ok, devs |-> devs, found |-> found,
                      h |-> h, d |-> d, t |-> t])
        IN
        StepWith("open_bus_addr", r,
                 [NoArg EXCEPT !.matches = IF found \in 1..Len(devs) THEN 1 ELSE 0])

\* rates handed to ftdi_convert_baudrate: none; the lowest; the two at the
\* clock switch of the H chips; the default; those around the raw divisor 8
\* of the AM encoder; the top rate of the H chips; the last whose tenfold
\* fits i32, the next, and the largest i32
ConvertRates ==
    {0, 1, 732, 733, DEFAULT_BAUDRATE, 2000000, 2500000, 2700000, 3000000, 4000000,
     12000000, 214748364, 214748365, 300000000, 2147483647}

\* ftdi_convert_baudrate on the session; overflow_checks: the build panics
\* on an arithmetic overflow.  A panic unwinds and drops the session
ConvertBaudrate ==
    \E rate \in ConvertRates, overflow_checks \in BOOLEAN :
        LET panics == /\ overflow_checks
                      /\ rate > 0
                      /\ ftdi.type \in HChips
                      /\ MulI32(rate, 10).overflow
            c == ftdi_convert_baudrate(ftdi.type, ftdi.index, rate)
        IN /\ Ready
           /\ ftdi' = IF panics THEN ftdi_context_drop(ftdi) ELSE ftdi
           /\ dropped' = panics
           /\ teardown' = IF panics THEN DropCalls(ftdi) ELSE teardown
           /\ pre' = Counters(ftdi)
           /\ op' = "convert_baudrate"
           /\ res' = IF panics THEN "panic" ELSE "ok"
           /\ n_ctrl' = 0
           /\ w' = IdleWrite
           /\ cb' = NoCallback
           /\ arg' = IF panics THEN [NoArg EXCEPT !.rate = rate]
                      ELSE [NoArg EXCEPT !.rate = rate, !.best_baud = c.best_baud,
                                         !.wValue = c.value, !.wIndex = c.index]
           /\ UNCHANGED <<readbuffer, tc>>

\* rates asked of ftdi_set_baudrate: below, at and above the lowest rate of
\* the AM divisor; the rates of the H-chip clock switch; the standard
\* rates; the top rates of the full-speed and of the H chips; over them
BaudRates ==
    {0, 1, 182, 183, 192, 732, 733, 9600, 115200, 921600, 1000000, 2000000, 2100000,
     2500000, 3000000, 4000000, 6000000, 7000000, 12000000, 13000000}

\* an operation that computes i32 products, run to completion.
\* overflow_checks: the build panics on an arithmetic overflow; a panic
\* unwinds and drops the session
StepChecked(name, r, a, overflow_checks) ==
    LET panics == overflow_checks /\ r.overflow IN
    /\ Ready
    /\ ftdi' = IF panics THEN ftdi_context_drop(ftdi) ELSE r.s
    /\ dropped' = panics
    /\ teardown' = IF panics THEN DropCalls(ftdi) ELSE teardown
    /\ pre' = Counters(ftdi)
    /\ op' = name
    /\ res' = IF panics THEN "panic" ELSE r.res
    /\ n_ctrl' = IF panics THEN 0 ELSE r.ctrl
    /\ w' = IdleWrite
    /\ cb' = NoCallback
    /\ arg' = [a EXCEPT !.overflow = r.overflow,
                        !.request = IF panics THEN "none" ELSE r.request]
    /\ UNCHANGED <<readbuffer, tc>>

SetBaudrateOf(Rates) ==
    \E rate \in Rates, ok \in BOOLEAN, overflow_checks \in BOOLEAN :
        StepChecked("set_baudrate",
                    ftdi_set_baudrate(ftdi, rate, ok)
                        @@ [request |-> "none",
                            overflow |-> SetBaudrateOverflows(ftdi, rate)],
                    [NoArg EXCEPT !.rate = rate], overflow_checks)

SetBaudrate == SetBaudrateOf(BaudRates)

BitsTypes == {7, 8}
StopBitsTypes == {"STOP_BIT_1", "STOP_BIT_15", "STOP_BIT_2"}
ParityTypes == {"NONE", "ODD", "EVEN", "MARK", "SPACE"}
BreakTypes == {"BREAK_OFF", "BREAK_ON"}

SetLinePropertyOf(Bs, Ss, Ps) ==
    \E bits \in Bs, sbit \in Ss, parity \in Ps, ok \in BOOLEAN :
        LET r == ftdi_set_line_property(ftdi, bits, sbit, parity, ok) IN
        StepWith("set_line_property", r,
                 [NoArg EXCEPT !.line = <<bits, sbit, parity, "BREAK_OFF">>,
                               !.wValue = r.wValue, !.request = r.request])

SetLineProperty2Of(Bs, Ss, Ps, Ks) ==
    \E bits \in Bs, sbit \in Ss, parity \in Ps, break_type \in Ks, ok \in BOOLEAN :
        LET r == ftdi_set_line_property2(ftdi, bits, sbit, parity, break_type, ok) IN
        StepWith("set_line_property2", r,
                 [NoArg EXCEPT !.line = <<bits, sbit, parity, break_type>>,
                               !.wValue = r.wValue, !.request = r.request])

\* results of a control transfer that reads 2 bytes
EepromReadResults == {2, 0, 0 - 1}

\* Layouts: where the compiler puts the two one-byte variables a and b
ReadChipidOf(Words, Layouts) ==
    \E n1 \in EepromReadResults, n2 \in EepromReadResults,
       word_a \in Words, word_b \in Words, layout \in Layouts :
        LET r == ftdi_read_chipid(ftdi, n1, n2, word_a, word_b, layout) IN
        StepWith("read_chipid", r,
                 [NoArg EXCEPT !.eeprom = <<word_a, word_b>>, !.n = <<n1, n2>>,
                               !.chipid = r.chipid])

ReadChipid == ReadChipidOf({0}, {"apart"})

\* ftdi_read_chipid_shift on a byte, once and twice
ChipidShift ==
    \E v \in 0..255 :
        StepWith("read_chipid_shift", Ret(ftdi, "ok", 0),
                 [NoArg EXCEPT !.value = v,
                               !.shifted = ftdi_read_chipid_shift(v),
                               !.reshifted =
                                   ftdi_read_chipid_shift(ftdi_read_chipid_shift(v))])

\* the session is moved into the call: no operation follows
ReadDataSubmit ==
    LET r == ftdi_read_data_submit(ftdi) IN
    /\ Ready
    /\ ftdi' = r.s
    /\ dropped' = TRUE
    /\ pre' = Counters(ftdi)
    /\ op' = "read_data_submit"
    /\ res' = r.res
    /\ n_ctrl' = r.ctrl
    /\ w' = IdleWrite
    /\ cb' = NoCallback
    /\ arg' = NoArg
    /\ teardown' = DropCalls(ftdi)
    /\ UNCHANGED <<readbuffer, tc>>

\* the session goes out of scope
Drop ==
    /\ Ready
    /\ ftdi' = ftdi_context_drop(ftdi)
    /\ dropped' = TRUE
    /\ teardown' = DropCalls(ftdi)
    /\ pre' = Counters(ftdi)
    /\ op' = "drop"
    /\ res' = "ok"
    /\ n_ctrl' = 0
    /\ w' = IdleWrite
    /\ cb' = NoCallback
    /\ arg' = NoArg
    /\ UNCHANGED <<readbuffer, tc>>

(***************************************************************************)
(* ftdi_write_data.  The call is entered (WriteBegin) and then runs one    *)
(* iteration of its while loop per step (WriteStep).                       *)
(***************************************************************************)
\* most bulk transfers of one call that the model follows
MaxTransfers == 3

\* lines 1141-1142, 1165: the length the loop adds to offset.  The transport
\* is handed a null pointer for the written length, so its report is lost
\* and the immutable local, 0, is added
WrittenLength(reported) == 0

\* lines 1144-1152: the slice of the buffer picked for the transfer at
\* offset.  usize arithmetic: with overflow checks the subtraction of line
\* 1149 panics when offset + write_size > len; without them it wraps, and a
\* negative lower stands for 2^64 + lower, which the slicing of line 1151
\* rejects with a panic
WriteSlice(len, offset, chunksize, overflow_checks) ==
    IF offset + chunksize < len
    THEN [lower |-> offset, size |-> chunksize, panic |-> FALSE]
    ELSE IF offset + chunksize > len /\ overflow_checks
         THEN [lower |-> offset, size |-> 0, panic |-> TRUE]
         ELSE LET lower_bound == len - (offset + chunksize)
              IN [lower |-> lower_bound, size |-> len - lower_bound,
                  panic |-> lower_bound < 0 \/ lower_bound > len]

\* WriteIteration with a failed transfer tried again
WriteIteration_retry(wr, s, overflow_checks, result) ==
    IF wr.offset >= wr.len
    THEN [wr EXCEPT !.pc = "ok", !.ret = wr.len, !.issued = FALSE]
    ELSE LET sl == WriteSlice(wr.len, wr.offset, s.writebuffer_chunksize, overflow_checks)
         IN IF sl.panic
            THEN [wr EXCEPT !.pc = "panic", !.at = wr.offset, !.lower = sl.lower,
                            !.size = sl.size, !.issued = FALSE]
            ELSE [wr EXCEPT !.at = wr.offset, !.lower = sl.lower, !.size = sl.size,
                            !.issued = TRUE, !.result = result, !.ntransfers = @ + 1,
                            !.reported = @ + (IF result < 0 THEN 0 ELSE result)]

\* one evaluation of the loop of lines 1143-1166.  result: the transport's
\* answer, negative for a failure, else the length it reports as written
WriteIteration(wr, s, overflow_checks, result) ==
    IF wr.offset >= wr.len
    THEN [wr EXCEPT !.pc = "ok", !.ret = wr.len, !.issued = FALSE]
    ELSE LET sl == WriteSlice(wr.len, wr.offset, s.writebuffer_chunksize, overflow_checks)
         IN IF sl.panic
            THEN [wr EXCEPT !.pc = "panic", !.at = wr.offset, !.lower = sl.lower,
                            !.size = sl.size, !.issued = FALSE]
            ELSE LET sent == [wr EXCEPT !.at = wr.offset, !.lower = sl.lower,
                                        !.size = sl.size,
                                        !.issued = TRUE, !.result = result,
                                        !.ntransfers = @ + 1]
                 IN IF result < 0
                    THEN [sent EXCEPT !.pc = "err"]
                    ELSE [sent EXCEPT !.reported = @ + result,
                                      !.offset = @ + WrittenLength(result)]

\* WriteEntry with the early return taken for a buffer of one byte as well
WriteEntry_short(s, len) ==
    LET fresh == [IdleWrite EXCEPT !.len = len] IN
    IF ~check_usb_device(s) THEN [fresh EXCEPT !.pc = "no_dev"]
    ELSE IF len <= 1 THEN [fresh EXCEPT !.pc = "ok", !.ret = len]
    ELSE [fresh EXCEPT !.pc = "loop"]

\* lines 1130-1139: the entry of ftdi_write_data for a buffer of len bytes
WriteEntry(s, len) ==
    LET fresh == [IdleWrite EXCEPT !.len = len] IN
    IF ~check_usb_device(s) THEN [fresh EXCEPT !.pc = "no_dev"]
    ELSE IF len <= 0 THEN [fresh EXCEPT !.pc = "ok", !.ret = len]
    ELSE [fresh EXCEPT !.pc = "loop"]

WriteBeginOf(Lens) ==
    \E len \in Lens :
        /\ Ready
        /\ w' = WriteEntry(ftdi, len)
        /\ op' = "write"
        /\ res' = w'.pc
        /\ pre' = Counters(ftdi)
        /\ n_ctrl' = 0
        /\ cb' = NoCallback
        /\ arg' = NoArg
        /\ UNCHANGED <<ftdi, readbuffer, tc, dropped, teardown>>

WriteBegin == WriteBeginOf(0..MaxBufLen)

WriteStep ==
    \E overflow_checks \in BOOLEAN, result \in (0 - 1)..MaxChunk :
        /\ w.pc = "loop"
        /\ w.ntransfers < MaxTransfers
        /\ w' = WriteIteration(w, ftdi, overflow_checks, result)
        /\ w'.issued => result <= w'.size
        /\ res' = w'.pc
        /\ UNCHANGED <<ftdi, readbuffer, pre, op, n_ctrl, cb, tc, arg, dropped, teardown>>

(***************************************************************************)
(* The completion of an asynchronous bulk read: the transport has filled   *)
(* the read buffer from readbuffer_offset on with L raw bytes and runs     *)
(* ftdi_read_data_callback.                                                *)
(***************************************************************************)
TransferStatus == {"COMPLETED", "CANCELLED"}

\* readbuffer holds the bytes of the read buffer up to the end of the last
\* completed transfer.  The bytes behind that end (zeros, or what an earlier
\* and longer transfer left) are read by no operation and are not kept: they
\* read as 0
ByteAt(buf, i) == IF i <= Len(buf) THEN buf[i] ELSE 0

\* the read buffer with the raw bytes of the transfer at base
Deposit(buf, base, L, pp) ==
    [i \in 1..(base + L) |-> IF base < i THEN RawByte(i - base, pp) ELSE ByteAt(buf, i)]

\* size of the packets the chip sends
WirePacketSize(s) == IF s.max_packet_size > 0 THEN s.max_packet_size ELSE PACKET_SIZE_FS

\* CallbackFinish with a cancelled transfer submitted again
CallbackFinish_resubmit(status, submit_ok) ==
    IF submit_ok THEN [completed |-> tc.completed, submits |-> 1, resubmit |-> "ok"]
    ELSE [completed |-> "error", submits |-> 1, resubmit |-> "failed"]

\* CallbackFinish with a failed resubmission that is not recorded
CallbackFinish_silent(status, submit_ok) ==
    IF status = "CANCELLED"
    THEN [completed |-> "CANCELLED", submits |-> 0, resubmit |-> "no"]
    ELSE IF submit_ok THEN [completed |-> tc.completed, submits |-> 1, resubmit |-> "ok"]
    ELSE [completed |-> tc.completed, submits |-> 1, resubmit |-> "failed"]

\* lines 1217-1224: the status of the transfer decides on the resubmission.
\* submits counts the calls of libusb_submit_transfer
CallbackFinish(status, submit_ok) ==
    IF status = "CANCELLED"
    THEN [completed |-> "CANCELLED", submits |-> 0, resubmit |-> "no"]
    ELSE IF submit_ok THEN [completed |-> tc.completed, submits |-> 1, resubmit |-> "ok"]
    ELSE [completed |-> "error", submits |-> 1, resubmit |-> "failed"]

\* CallbackUnlocked with the status bytes skipped without the lock
CallbackUnlocked_advance(s, L) ==
    [s |-> [s EXCEPT !.readbuffer_offset = @ + (IF L > 2 THEN 2 ELSE 0)],
     actual_length |-> L, panic |-> FALSE]

\* lines 1213-1216: try_lock failed, the completion is logged and the session
\* is not touched
CallbackUnlocked(s, L) == [s |-> s, actual_length |-> L, panic |-> FALSE]

\* Cap: readbuffer_offset is capped there, a completion is not delivered
\* beyond it.  The callback itself compares the offset with nothing.
CallbackWithin(Cap, L, status, lock_free, submit_ok) ==
    LET base == ftdi.readbuffer_offset
        filled == Deposit(readbuffer, base, L, WirePacketSize(ftdi))
        locked == lock_free /\ ~tc.poisoned
        r == IF locked THEN CallbackBuffer(ftdi, L) ELSE CallbackUnlocked(ftdi, L)
        fin == CallbackFinish(status, submit_ok)
    IN /\ Ready
       /\ tc.completed = "unset"
       /\ base + 2 <= Cap
       /\ pre' = Counters(ftdi)
       /\ op' = "callback"
       /\ n_ctrl' = 0
       /\ IF r.panic
          THEN /\ ftdi' = ftdi
               /\ readbuffer' = filled
               /\ res' = "panic"
               /\ cb' = [L |-> L, base |-> base, locked |-> locked,
                         actual_length |-> L, outcome |-> "panic",
                         status |-> status, submits |-> 0, resubmit |-> "no"]
               /\ tc' = [tc EXCEPT !.poisoned = TRUE]
          ELSE /\ ftdi' = r.s
               /\ readbuffer' = IF locked THEN CompactBuffer(filled, ftdi, L) ELSE filled
               /\ res' = "ok"
               /\ cb' = [L |-> L, base |-> base, locked |-> locked,
                         actual_length |-> r.actual_length, outcome |-> "done",
                         status |-> status, submits |-> fin.submits,
                         resubmit |-> fin.resubmit]
               /\ tc' = [tc EXCEPT !.completed = fin.completed]
       /\ w' = IdleWrite
       /\ arg' = NoArg
       /\ UNCHANGED <<dropped, teardown>>

Callback(L, status, lock_free, submit_ok) ==
    CallbackWithin(MaxOffset, L, status, lock_free, submit_ok)

ReadCallbackOf(Lens) ==
    \E L \in Lens, status \in TransferStatus, lock_free \in BOOLEAN,
       submit_ok \in BOOLEAN :
        Callback(L, status, lock_free, submit_ok)

ReadCallback == ReadCallbackOf(XferLens)

\* the caller sets up another transfer with a fresh transfer control
NewTransfer ==
    /\ Ready
    /\ tc.completed # "unset"
    /\ tc' = [tc EXCEPT !.completed = "unset"]
    /\ UNCHANGED <<ftdi, readbuffer, pre, op, res, n_ctrl, w, cb, arg, dropped, teardown>>

(***************************************************************************)
(* Specifications.  Spec: the operations of the session, with completions  *)
(* of one short and one long transfer.  SpecWrite: ftdi_write_data on an   *)
(* opened session, for every chunk size.  SpecRead: the completion         *)
(* callback for every transfer length, on a session opened with packet     *)
(* size 4 or 64.                                                           *)
(***************************************************************************)
\* packet sizes of the endpoints of the devices opened in SpecRead
PacketSizes == {3, 4, PACKET_SIZE_FS}

AllCallsSucceed == [fail |-> "none", detach |-> 0, probe |-> "ok"]

\* descriptors of an R chip, of an H chip without endpoint descriptors, of a
\* chip the lookup does not know, of a device with packets of 4 bytes and of
\* a device whose configuration is already the active one
FewDescriptors ==
    {BaseDescriptor,
     [BaseDescriptor EXCEPT !.bcdDevice = 1792, !.bNumEndpoints = 0],
     [BaseDescriptor EXCEPT !.bcdDevice = 768],
     [BaseDescriptor EXCEPT !.wMaxPacketSize = 4],
     [BaseDescriptor EXCEPT !.bConfigurationValue = 0]}

\* every call succeeds, or the first failure is that of libusb_open, of the
\* set-configuration call after a refused detach, of the reset, of the
\* baud-rate transfer
FewOutcomes ==
    {AllCallsSucceed,
     [AllCallsSucceed EXCEPT !.fail = "open"],
     [AllCallsSucceed EXCEPT !.fail = "setcfg", !.detach = LIBUSB_ERROR_ACCESS],
     [AllCallsSucceed EXCEPT !.fail = "reset"],
     [AllCallsSucceed EXCEPT !.fail = "baud"]}

Next ==
    \/ SetInterfaceTypeOf({"INTERFACE_B"})
    \/ GetStrings
    \/ OpenDevFrom(FewDescriptors, FewOutcomes)
    \/ OpenStringOf({desc \in Descriptions : desc.shape \in {"d_bus_addr", "no_colon"}},
                    {<<BaseDevice>>}, {BaseDescriptor}, {AllCallsSucceed})
    \/ FlushRx
    \/ PurgeRx
    \/ FlushTx
    \/ PurgeTx
    \/ FlushBoth
    \/ PurgeBoth
    \/ SetLinePropertyOf({8}, {"STOP_BIT_1"}, {"NONE"})
    \/ SetLineProperty2Of({8}, {"STOP_BIT_1"}, {"EVEN"}, BreakTypes)
    \/ ReadChipid
    \/ ReadDataSubmit
    \/ Drop
    \/ WriteBeginOf({0, 1})
    \/ WriteStep
    \/ ReadCallbackOf({MaxXferLen})
    \/ NewTransfer

Spec == Init /\ [][Next]_vars

NextWrite ==
    \/ OpenDevFrom({BaseDescriptor}, {AllCallsSucceed})
    \/ WriteBegin
    \/ WriteStep

SpecWrite == InitWrite /\ [][NextWrite]_vars

\* SpecOpen: opening by filters and index, and by a description string:
\* d:1/2, i: with decimal numbers, with and without an index, a string
\* without a colon and one with another first letter
NextOpen ==
    \/ OpenDescIndex
    \/ OpenStringOf({desc \in Descriptions :
                        \/ desc.shape \in {"d_bus_addr", "no_colon", "bad_letter"}
                        \/ /\ desc.shape \in {"i_vp", "i_vpi"}
                           /\ \A k \in 1..Len(desc.text) : desc.text[k] \notin {"x", "o"}},
                    {<< >>, <<BaseDevice>>, <<BaseDevice, BaseDevice>>},
                    {BaseDescriptor}, {AllCallsSucceed})
    \/ OpenDevFrom(FewDescriptors, {AllCallsSucceed})
    \/ GetStrings

SpecOpen == Init /\ [][NextOpen]_vars

\* SpecBaud: the chip lookup of ftdi_usb_open_dev and ftdi_set_baudrate,
\* for every chip family, with bitbang mode off and on
BaudOutcomes == {AllCallsSucceed, [AllCallsSucceed EXCEPT !.fail = "baud"]}

NextBaud ==
    \/ OpenDevFrom(Descriptors, BaudOutcomes)
    \/ SetBaudrate

SpecBaud == InitBaud /\ [][NextBaud]_vars

\* SpecDev: ftdi_usb_open_dev for every detach mode, with every first
\* failure and every result of the detach call, and ftdi_usb_open_bus_addr
\* with and without the device asked for
NextDev ==
    \/ OpenDevFrom(FewDescriptors, {t \in OpenOutcomes : t.probe = "ok"})
    \/ SetInterfaceTypeOf({"INTERFACE_B"})
    \/ OpenBusAddrOf({<< >>, <<BaseDevice>>}, {BaseDescriptor},
                     {AllCallsSucceed, [AllCallsSucceed EXCEPT !.fail = "open"]})

SpecDev == InitDev /\ [][NextDev]_vars

\* SpecConv: ftdi_convert_baudrate on a session of every chip family and
\* of three interface selections
NextConv ==
    \/ OpenDevFrom(Descriptors, {AllCallsSucceed})
    \/ SetInterfaceTypeOf({"INTERFACE_B", "INTERFACE_D"})
    \/ ConvertBaudrate

SpecConv == Init /\ [][NextConv]_vars

\* SpecRange: ftdi_set_baudrate over the range of i32, for every chip
\* family, with bitbang mode off and on.  The rates: the ends of the range;
\* -1073741823 and 1073744224, whose fourfold wraps to 4 and to 9600;
\* standard rates; 102261126, 107374182, 214748364 and 536870911, the last
\* whose product by 21, 20, 10 and 4 fits i32, and the rates next to them
NextRange ==
    \/ OpenDevFrom(Descriptors, {AllCallsSucceed})
    \/ SetBaudrateOf({-2147483647, -1073741823, -1, 0, DEFAULT_BAUDRATE, 3000000,
                      12000000, 102261126, 102261127, 107374182, 107374183,
                      214748364, 214748365, 536870911, 536870912, 1073744224,
                      2147483647})

SpecRange == InitBaud /\ [][NextRange]_vars

\* SpecLine: the line properties, every combination of data bits, stop
\* bits, parity and break
NextLine ==
    \/ OpenDevFrom({BaseDescriptor}, {AllCallsSucceed})
    \/ SetLinePropertyOf(BitsTypes, StopBitsTypes, ParityTypes)
    \/ SetLineProperty2Of(BitsTypes, StopBitsTypes, ParityTypes, BreakTypes)

SpecLine == Init /\ [][NextLine]_vars

\* SpecChip: the chip id read from the EEPROM words 0x43 and 0x44, and its
\* bit permutation on every byte
NextChip ==
    \/ OpenDevFrom({BaseDescriptor}, {AllCallsSucceed})
    \/ ReadChipidOf({0, 255, 4660, 47175, 65535}, {"apart", "b_after_a", "a_after_b"})
    \/ ChipidShift

SpecChip == Init /\ [][NextChip]_vars

\* SpecParse: the parser of description strings and ftdi_usb_open_string
\* on every description
NextParse ==
    \/ ParseDescriptionOf(Descriptions)
    \/ OpenStringOf(Descriptions, {<<BaseDevice>>}, {BaseDescriptor}, {AllCallsSucceed})

SpecParse == Init /\ [][NextParse]_vars

NextRead ==
    \/ OpenDevFrom({[BaseDescriptor EXCEPT !.wMaxPacketSize = p] : p \in PacketSizes},
                   {AllCallsSucceed})
    \/ FlushRx
    \/ ReadCallback
    \/ NewTransfer

SpecRead == Init /\ [][NextRead]_vars

\* SpecStream: a transfer that keeps streaming, every completion submitted
\* again, with the flushes in between, until the offset has passed the end
\* of the read buffer
NextStream ==
    \/ OpenDevFrom({BaseDescriptor}, {AllCallsSucceed})
    \/ FlushRx
    \/ FlushTx
    \/ \E L \in {2, 3, PACKET_SIZE_FS}, lock_free \in BOOLEAN :
          CallbackWithin(ReadBufLen + 1, L, "COMPLETED", lock_free, TRUE)

SpecStream == Init /\ [][NextStream]_vars

(***************************************************************************)
(* Properties.                                                             *)
(***************************************************************************)
ZeroCounters == [readbuffer_offset |-> 0, readbuffer_remaining |-> 0]

\* C1: a successful TX-side flush (ftdi_tcoflush, ftdi_usb_purge_tx_buffer)
\* leaves readbuffer_offset and readbuffer_remaining as they were before
\* the call.
C1_TxFlushKeepsReadCounters ==
    (op \in {"tcoflush", "purge_tx"} /\ res = "ok") => Counters(ftdi) = pre

\* C2: after a successful ftdi_tciflush or ftdi_usb_purge_rx_buffer both
\* read-buffer counters are 0; when the control transfer fails both keep
\* the values they had before the call.
C2_RxFlushResetsReadCounters ==
    op \in {"tciflush", "purge_rx"} =>
        /\ res = "ok" => Counters(ftdi) = ZeroCounters
        /\ res = "cmd_err" => Counters(ftdi) = pre

C2_Witness ==
    /\ op \in {"tciflush", "purge_rx"}
    /\ res = "ok"
    /\ pre.readbuffer_offset > 0

\* C3: in every reachable state a device handle is present only if the
\* transport context is present.
C3_DeviceOnlyWithContext == ftdi.usb_dev # NoHandle => ftdi.usb_ctx

\* C4: after a successful ftdi_usb_open_dev both read-buffer counters are
\* 0, whatever they were before the call.
C4_OpenResetsReadCounters ==
    (op = "open_dev" /\ res = "ok") => Counters(ftdi) = ZeroCounters

C4_Witness ==
    /\ op = "open_dev"
    /\ res = "ok"
    /\ pre.readbuffer_offset > 0

\* C5: in ftdi_write_data every iteration whose bulk transfer succeeds and
\* reports a positive written length advances the write offset by that
\* length (so that the loop ends after finitely many transfers).
C5_WriteOffsetAdvances ==
    [][(/\ w.pc = "loop"
        /\ w'.pc = "loop"
        /\ w'.ntransfers = w.ntransfers + 1
        /\ w'.result > 0) => w'.offset = w.offset + w'.result]_vars

\* C6: the slice ftdi_write_data picks for a bulk transfer lies inside the
\* buffer, starts at the write offset and has between 1 and
\* writebuffer_chunksize bytes, for every buffer length and chunk size,
\* buffers shorter than one chunk included.
C6_WriteSliceInsideBuffer ==
    (w.issued \/ w.pc = "panic") =>
        /\ w.lower = w.at
        /\ 1 <= w.size
        /\ w.size <= ftdi.writebuffer_chunksize
        /\ w.lower + w.size <= w.len

C8_FailedTransferAbortsWrite ==
    [][/\ (w.pc = "loop" /\ w'.issued /\ w'.result < 0) => w'.pc = "err"
       /\ w.pc = "err" => ~(w'.issued /\ w'.ntransfers > w.ntransfers)]_vars

C8_Witness ==
    /\ w.pc = "err"
    /\ w.issued
    /\ w.result < 0
    /\ w.len > w.size

\* the bytes the session delivers after a callback: those of the read
\* buffer from readbuffer_offset on, for the length the callback computed
Delivered ==
    [i \in 1..cb.actual_length |-> ByteAt(readbuffer, ftdi.readbuffer_offset + i)]

\* C9: for a completed bulk read of one or more full packets and an
\* optional trailing partial packet, the bytes delivered from the read
\* offset for the reported length are the payloads of the packets in
\* order, with no status byte among them.
C9_DeliveredIsPayload ==
    (/\ cb.outcome = "done"
     /\ cb.locked
     /\ ftdi.max_packet_size > 2
     /\ cb.L >= ftdi.max_packet_size) =>
        Delivered = PayloadOf(cb.L, ftdi.max_packet_size)

\* C10: for a raw transfer of L > 2 bytes and packets of P > 2 bytes the
\* length the reassembly computes is L less 2 for every packet of more
\* than 2 bytes, less the whole of a trailing partial packet of 1 or 2
\* bytes.
C10_ReassembledLength ==
    (/\ cb.outcome = "done"
     /\ cb.locked
     /\ cb.L > 2
     /\ ftdi.max_packet_size > 2) =>
        cb.actual_length =
            LET full == cb.L \div ftdi.max_packet_size
                part == cb.L % ftdi.max_packet_size
            IN cb.L - 2 * full - (IF part > 2 THEN 2 ELSE part)

C10_Witness ==
    /\ cb.outcome = "done"
    /\ cb.locked
    /\ ftdi.max_packet_size = 64
    /\ cb.L = 131
    /\ cb.actual_length = 125

\* C11: a callback that runs with the transport status cancelled does not
\* submit the transfer, with or without the session lock, and once the
\* transfer control records the cancellation no later step submits it.
C11_NoResubmitAfterCancel ==
    [][/\ cb'.status = "CANCELLED" => (cb'.submits = 0 /\ cb'.resubmit = "no")
       /\ tc.completed = "CANCELLED" => cb'.submits = 0]_vars

C11_Witness ==
    /\ op = "callback"
    /\ cb.outcome = "done"
    /\ cb.status = "CANCELLED"
    /\ ~cb.locked
    /\ cb.submits = 0
    /\ tc.completed = "CANCELLED"

\* C12: a callback that does not get the session lock returns without
\* waiting and leaves every field of the session as it was, the read-buffer
\* counters included: the payload of that completion is dropped.
C12_LockedOutCallbackKeepsSession ==
    [][(op' = "callback" /\ ~cb'.locked) =>
            (ftdi' = ftdi /\ cb'.outcome = "done")]_vars

C12_Witness ==
    /\ op = "callback"
    /\ cb.outcome = "done"
    /\ ~cb.locked
    /\ cb.L > 2
    /\ Counters(ftdi) = pre

DeviceOps ==
    {"tciflush", "tcoflush", "purge_rx", "purge_tx", "tcioflush", "purge_buffers",
     "set_line_property", "set_line_property2", "write", "read_chipid",
     "read_data_submit"}

\* C14: on a session without a device handle every operation that needs
\* the device returns the device-absent failure, issues no control or bulk
\* transfer and leaves the session as it was, still there for the caller;
\* ftdi_usb_open_dev and ftdi_usb_open_string do the same on a session
\* without a transport context.
C14_AbsentDeviceRefused ==
    [][/\ (op' \in DeviceOps /\ ftdi.usb_dev = NoHandle) =>
            /\ res' = "no_dev"
            /\ n_ctrl' = 0
            /\ w'.ntransfers = 0
            /\ ftdi' = ftdi
            /\ ~dropped'
       /\ (op' \in {"open_dev", "open_string"} /\ ~ftdi.usb_ctx) =>
            /\ res' = "no_ctx"
            /\ n_ctrl' = 0
            /\ ftdi' = ftdi
            /\ ~dropped']_vars

\* C15: ftdi_usb_open_desc_index returns the not-found failure when fewer
\* than index + 1 of the enumerated devices pass all the filters supplied,
\* an empty enumeration included.
C15_TooFewMatchesNotFound ==
    (op = "open_desc_index" /\ res # "list_failed" /\ arg.matches <= arg.index) =>
        res = "not_found"

\* C16: when at least index + 1 enumerated devices pass all the filters, a
\* successful ftdi_usb_open_desc_index leaves the session with the handle
\* of the (index + 1)-th of them in enumeration order.
C16_OpensNthMatch ==
    (op = "open_desc_index" /\ res = "ok" /\ arg.matches > arg.index) =>
        (ftdi.usb_dev # NoHandle /\ ftdi.usb_dev = arg.nth)

\* C17: the recorded baud rate is -1 on a new session and changes only in
\* a successful ftdi_usb_open_dev (called by the user or by
\* ftdi_usb_open_string), after which it is 9600 on a session whose bitbang
\* mode is off.
C17_BaudrateSetByOpen ==
    /\ ftdi.baudrate = 0 - 1
    /\ []((op = "open_dev" /\ res = "ok" /\ ~ftdi.bitbang_enabled) =>
            ftdi.baudrate = DEFAULT_BAUDRATE)
    /\ [][ftdi'.baudrate # ftdi.baudrate =>
            (op' \in {"open_dev", "open_string"} /\ res' = "ok")]_vars

C17_Witness ==
    /\ op = "open_dev"
    /\ res = "ok"
    /\ ~ftdi.bitbang_enabled
    /\ ftdi.type \in HChips
    /\ ftdi.baudrate = DEFAULT_BAUDRATE

\* the chip family the lookup table gives for a device-release number and
\* a serial-string index
TableChipType(bcdDevice, iSerialNumber) ==
    CASE bcdDevice = 1024 -> "TYPE_BM"
      [] bcdDevice = 512 -> IF iSerialNumber = 0 THEN "TYPE_BM" ELSE "TYPE_AM"
      [] bcdDevice = 1280 -> "TYPE_2232C"
      [] bcdDevice = 1536 -> "TYPE_R"
      [] bcdDevice = 1792 -> "TYPE_2232H"
      [] bcdDevice = 2048 -> "TYPE_4232H"
      [] bcdDevice = 2304 -> "TYPE_232H"
      [] bcdDevice = 4096 -> "TYPE_230X"
      [] OTHER -> "unknown"

\* C18: an ftdi_usb_open_dev that gets as far as the chip lookup sets the
\* chip family the table gives for bcdDevice and iSerialNumber, and fails
\* with the unrecognized-chip error for every other bcdDevice.
C18_ChipTypeLookup ==
    (/\ op = "open_dev"
     /\ \/ res \in {"ok", "unknown_chip"}
        \/ (res = "cmd_err" /\ n_ctrl = 2)) =>
        LET expected == TableChipType(arg.bcdDevice, arg.iSerialNumber) IN
        IF expected = "unknown" THEN res = "unknown_chip"
        ELSE res # "unknown_chip" /\ ftdi.type = expected

C18_Witness ==
    /\ op = "open_dev"
    /\ res = "ok"
    /\ arg.bcdDevice = 512
    /\ arg.iSerialNumber = 0
    /\ ftdi.type = "TYPE_BM"

\* C19: after a successful ftdi_set_baudrate(rate) the recorded baud rate
\* is the rate the caller passed, in bitbang mode as well.
C19_RecordsRequestedRate ==
    (op = "set_baudrate" /\ res = "ok") => ftdi.baudrate = arg.rate

\* the highest rate of a chip family
ChipMaxRate(type) == IF type \in HChips THEN H_CLK \div 10 ELSE AM_CLK \div 8

\* C20: for a positive rate up to the chip's maximum ftdi_set_baudrate
\* succeeds, fails in the control transfer or refuses the rate as
\* unsupported; it issues the control transfer only when the achievable
\* rate a and the effective request r satisfy 20r <= 21a and 20a <= 21r,
\* and refuses every rate for which they do not.
C20_BaudrateTolerance ==
    (/\ op = "set_baudrate"
     /\ ftdi.usb_dev # NoHandle
     /\ arg.rate > 0
     /\ arg.rate <= ChipMaxRate(ftdi.type)) =>
        LET r == IF ftdi.bitbang_enabled THEN 4 * arg.rate ELSE arg.rate
            a == ftdi_convert_baudrate(ftdi.type, ftdi.index, r).best_baud
            within == 20 * r <= 21 * a /\ 20 * a <= 21 * r
        IN /\ res \in {"ok", "cmd_err", "unsupported_baudrate"}
           /\ (res = "ok" \/ n_ctrl > 0) => within
           /\ ~within => res = "unsupported_baudrate"

C20_Witness ==
    /\ op = "set_baudrate"
    /\ res = "ok"
    /\ n_ctrl = 1
    /\ arg.rate = 192
    /\ ftdi.type = "TYPE_AM"
    /\ ~ftdi.bitbang_enabled

\* C21: a failing ftdi_set_baudrate leaves the recorded baud rate as it
\* was; a rate that is not positive, or whose achievable rate is out of
\* tolerance, makes it fail without a control transfer.
C21_FailedBaudrateKeepsRate ==
    [][op' = "set_baudrate" =>
        LET r == IF ftdi.bitbang_enabled THEN 4 * arg'.rate ELSE arg'.rate
            a == ftdi_convert_baudrate(ftdi.type, ftdi.index, r).best_baud
            invalid == r <= 0 \/ 21 * a < 20 * r \/ 21 * r < 20 * a
        IN /\ res' # "ok" => ftdi'.baudrate = ftdi.baudrate
           /\ invalid => (res' # "ok" /\ n_ctrl' = 0)]_vars

C21_Witness ==
    /\ op = "set_baudrate"
    /\ res = "unsupported_baudrate"
    /\ arg.rate = 1
    /\ n_ctrl = 0
    /\ ftdi.type = "TYPE_AM"
    /\ ftdi.baudrate = DEFAULT_BAUDRATE

\* the four selections: interface number, index, in-endpoint, out-endpoint
InterfaceTuples ==
    {<<0, InterfaceIndex("INTERFACE_A"), 2, 129>>,
     <<1, InterfaceIndex("INTERFACE_B"), 4, 131>>,
     <<2, InterfaceIndex("INTERFACE_C"), 6, 133>>,
     <<3, InterfaceIndex("INTERFACE_D"), 8, 135>>}

\* C22: whenever the session has an open device, its interface number,
\* index, in-endpoint and out-endpoint are those of one of the four
\* selections A, B, C, D (ANY being A), never a mix and never anything else.
C22_InterfaceTupleFixed ==
    ftdi.usb_dev # NoHandle =>
        <<ftdi.interface, ftdi.index, ftdi.in_ep, ftdi.out_ep>> \in InterfaceTuples

\* the place of the first call c in the calls cs, 0 when it is not there
PlaceOf(c, cs) ==
    IF \E i \in 1..Len(cs) : cs[i] = c
    THEN CHOOSE i \in 1..Len(cs) : cs[i] = c /\ \A j \in 1..(i - 1) : cs[j] # c
    ELSE 0

\* C23: when a session that holds a device handle and a transport context
\* is torn down, the handle is closed and then the context is exited; the
\* context is not exited while the handle is open.
C23_HandleClosedBeforeContextExit ==
    [][(dropped' /\ ~dropped /\ ftdi.usb_dev # NoHandle /\ ftdi.usb_ctx) =>
        /\ PlaceOf("libusb_close", teardown') > 0
        /\ PlaceOf("libusb_exit", teardown') > PlaceOf("libusb_close", teardown')
        /\ \A i \in 1..Len(teardown') :
              teardown'[i] = "libusb_exit" => i = Len(teardown')]_vars

C23_Witness ==
    /\ op = "drop"
    /\ dropped
    /\ ftdi.usb_ctx
    /\ ftdi.baudrate = DEFAULT_BAUDRATE
    /\ teardown = <<"libusb_close", "libusb_release_interface", "libusb_exit">>

\* C24: when the detach step of ftdi_usb_open_dev fails for lack of
\* permission and the set-configuration step fails too, the result is the
\* permission-denied failure; when set-configuration fails after a detach
\* that succeeded, was not made or failed otherwise, it is the generic
\* configuration failure; a failed detach with no other failure lets the
\* open succeed.
C24_DetachFailureEscalation ==
    (op = "open_dev" /\ res # "no_ctx") =>
        LET denied == /\ ftdi.module_detach_mode # "DONT_DETACH_SIO_MODULE"
                      /\ arg.detach = LIBUSB_ERROR_ACCESS
            setcfg_fails == /\ arg.fail = "setcfg"
                            /\ arg.bNumConfigurations > 0
                            /\ arg.bConfigurationValue # 0
        IN /\ setcfg_fails =>
                res = IF denied THEN "permission_denied" ELSE "setcfg_failed"
           /\ (arg.fail = "none"
               /\ TableChipType(arg.bcdDevice, arg.iSerialNumber) # "unknown") =>
                res = "ok"

\* C25: on the chips 2232H, 4232H and 232H, for every positive rate with
\* 10 * rate > 120000000 / 0x3FFF (rate >= 733) ftdi_convert_baudrate takes
\* the divider-10 path and sets bit 0x20000 of the encoded divisor, so that
\* bit 9 of the index word is set and its low byte is the session's
\* interface index; for the lower rates the bit is clear.
C25_HighSpeedBit ==
    (op = "convert_baudrate" /\ ftdi.type \in HChips /\ arg.rate > 0) =>
        IF arg.rate > (H_CLK \div 16383) \div 10
        THEN /\ res = "ok"
             /\ arg.best_baud = ftdi_to_clkbits(arg.rate, H_CLK, 10).best_baud
             /\ BitAnd(arg.wIndex, 512) = 512
             /\ arg.wIndex % 256 = ftdi.index
        ELSE res = "ok" /\ BitAnd(arg.wIndex, 512) = 0

\* C26: ftdi_to_clkbits_am gives the encoded divisor 0 and the achievable
\* rate 3000000 for every rate whose best divisor is 8 (raw encoded value
\* 1), 3000000 among them: the raw value 1 is not returned for such a rate.
\* The achievable rate is 24000000 / 8 exactly when the best divisor is 8.
C26_AmDivisorEightEncodesZero ==
    (op = "convert_baudrate" /\ ftdi.type \notin HChips /\ arg.rate > 0) =>
        /\ arg.rate = AM_CLK \div 8 => arg.best_baud = AM_CLK \div 8
        /\ arg.best_baud = AM_CLK \div 8 => (arg.wValue = 0 /\ arg.wIndex = 0)

C26_Witness ==
    /\ op = "convert_baudrate"
    /\ ftdi.type = "TYPE_AM"
    /\ arg.rate = 3000000
    /\ arg.best_baud = 3000000
    /\ arg.wValue = 0

\* C27: the value word of the control transfer of ftdi_set_line_property2
\* is data bits | parity << 8 | stop << 11 | break << 14 with parity NONE 0,
\* ODD 1, EVEN 2, MARK 3, SPACE 4, stop bits 1 -> 0, 1.5 -> 1, 2 -> 2, break
\* off 0, on 1; ftdi_set_line_property sends the word of break off.
C27_LinePropertyWord ==
    (op \in {"set_line_property", "set_line_property2"} /\ n_ctrl = 1) =>
        LET bits == arg.line[1]
            sbit == arg.line[2]
            parity == arg.line[3]
            break_type == arg.line[4]
            p == CASE parity = "NONE" -> 0 [] parity = "ODD" -> 1 [] parity = "EVEN" -> 2
                   [] parity = "MARK" -> 3 [] parity = "SPACE" -> 4
            st == CASE sbit = "STOP_BIT_1" -> 0 [] sbit = "STOP_BIT_15" -> 1
                    [] sbit = "STOP_BIT_2" -> 2
            b == CASE break_type = "BREAK_OFF" -> 0 [] break_type = "BREAK_ON" -> 1
        IN /\ arg.wValue = bits + 256 * p + 2048 * st + 16384 * b
           /\ op = "set_line_property" => b = 0

C27_Witness ==
    /\ op = "set_line_property"
    /\ res = "ok"
    /\ arg.line = <<8, "STOP_BIT_1", "EVEN", "BREAK_OFF">>
    /\ arg.wValue = 8 + 2 * 256

\* C28: the parser accepts s:<vendor>:<product>:<serial> with a serial that
\* is not a number and gives the vendor and product ids, and
\* ftdi_usb_open_string does not fail on such a string in the parse.
C28_SerialSelectorParses ==
    (/\ arg.desc.shape = "s_vps"
     /\ \E k \in 1..Len(arg.desc.serial) : arg.desc.serial[k] \in {"A", "B", "C"}) =>
        /\ op = "parse_vendor_product_index" =>
              (/\ res = "ok"
               /\ Len(arg.parts) >= 2
               /\ SubSeq(arg.parts, 1, 2) = arg.desc.numbers)
        /\ (op = "open_string" /\ ftdi.usb_ctx) => res \in {"ok", "list_failed", "not_found"}

\* C29: the parser gives exactly the two ids for i:<vendor>:<product> and
\* the two ids and the index for i:<vendor>:<product>:<index>, the same
\* values for a number written in decimal, in hex after 0x and in octal
\* after 0o.
C29_IdSelectorParses ==
    (op = "parse_vendor_product_index" /\ arg.desc.shape \in {"i_vp", "i_vpi"}) =>
        (res = "ok" /\ arg.parts = arg.desc.numbers)

C29_Witness ==
    /\ op = "parse_vendor_product_index"
    /\ res = "ok"
    /\ arg.desc.text = <<"i", ":", "0", "x", "0", "4", "0", "3", ":",
                         "0", "x", "6", "0", "0", "1">>
    /\ arg.parts = <<1027, 24577>>

C31_ChipIdValue ==
    (op = "read_chipid" /\ ftdi.usb_dev # NoHandle) =>
        IF arg.n = <<2, 2>>
        THEN LET a == arg.eeprom[1]
                 b == arg.eeprom[2]
                 Xor(x, y) == x + y - 2 * BitAnd(x, y)
                 \* swap(a) has the bytes low(a), high(a), from the top
                 byte3 == Xor(ftdi_read_chipid_shift(a % 256), 165)
                 byte2 == Xor(ftdi_read_chipid_shift(a \div 256), 240)
                 byte1 == Xor(ftdi_read_chipid_shift(b % 256), 247)
                 byte0 == Xor(ftdi_read_chipid_shift(b \div 256), 209)
             IN /\ res = "ok"
                /\ byte3 = 0
                /\ byte2 = 0
                /\ arg.chipid = byte1 * 256 + byte0
        ELSE res = "cmd_err"

\* C32: over the bytes, applying the bit permutation twice gives the same
\* as applying it once only for 0 and 255.
C32_ShiftIdempotentOnlyAtEnds ==
    op = "read_chipid_shift" =>
        (arg.reshifted = arg.shifted <=> arg.value \in {0, 255})

\* C32, as the code has it: applying the bit permutation twice gives the
\* same as applying it once exactly for the four bytes 0, 0x47, 0xB8 and
\* 0xFF, the bytes that are constant on each of the two cycles of bits
\* (0, 1, 6, 2) and (3, 7, 5, 4).
C32_ShiftIdempotentAtFourBytes ==
    op = "read_chipid_shift" =>
        (arg.reshifted = arg.shifted <=> arg.value \in {0, 71, 184, 255})

C32_Witness ==
    /\ op = "read_chipid_shift"
    /\ arg.value = 71
    /\ arg.shifted = 71
    /\ arg.reshifted = 71

\* C33: a call of ftdi_usb_get_strings on a session without a device
\* handle returns with the session still without one (the handle it opened
\* is closed and not kept), and a handle that was open before the call
\* stays the session's handle.
C33_GetStringsKeepsNoHandle ==
    [][op' = "get_strings" =>
        /\ ftdi.usb_dev = NoHandle => ftdi'.usb_dev = NoHandle
        /\ ftdi.usb_dev # NoHandle => ftdi'.usb_dev = ftdi.usb_dev]_vars

\* C34: after ftdi_usb_open_dev returns an error, whichever step failed,
\* the session holds no device handle; a session that holds a device
\* handle has its baud rate set and a positive maximum packet size.
C34_FailedOpenLeavesNoHandle ==
    /\ (op = "open_dev" /\ res # "ok") => ftdi.usb_dev = NoHandle
    /\ ftdi.usb_dev # NoHandle =>
          (ftdi.baudrate = DEFAULT_BAUDRATE /\ ftdi.max_packet_size > 0)

\* C35: no open, enumeration or string-query operation returns while a
\* handle it opened, or the handle the session held, is open in the
\* transport and is not the handle stored in the session.
C35_NoStrayHandle ==
    op \in {"open_dev", "open_desc_index", "open_string", "get_strings"} =>
        arg.stray = 0

\* C36: on teardown no call that takes the device handle (the release of
\* the interface, a second close) is issued after the handle was closed.
C36_NoCallAfterClose ==
    \A i, j \in 1..Len(teardown) :
        (i < j /\ teardown[i] = "libusb_close") =>
            teardown[j] \notin {"libusb_close", "libusb_release_interface"}

\* C37: ftdi_set_line_property and ftdi_set_line_property2 leave the
\* session's recorded baud rate unchanged, and the control transfer that
\* the chip accepts from them does not carry the request code with which
\* ftdi_set_baudrate programs the divisor, so that the divisor stays as it
\* was.
C37_LinePropertyKeepsBaudrate ==
    [][op' \in {"set_line_property", "set_line_property2"} =>
        /\ ftdi'.baudrate = ftdi.baudrate
        /\ res' = "ok" => arg'.request # "SIO_SET_BAUDRATE_REQUEST"]_vars

\* C38: in every reachable state, after any number of completions and
\* resubmissions interleaved with flushes, readbuffer_offset plus
\* readbuffer_remaining does not exceed the capacity of the read buffer.
C38_ReadCountersInsideBuffer ==
    ftdi.readbuffer_offset + ftdi.readbuffer_remaining <= ReadBufLen

\* C39: ftdi_usb_open_bus_addr returns success only when a device with the
\* bus number and address was found and opened, the session holding a
\* device handle afterwards, and fails as not found when no enumerated
\* device has them, as ftdi_usb_open_string does for d:<bus>/<address>.
C39_BusAddrNotFound ==
    op = "open_bus_addr" =>
        /\ res = "ok" => (arg.matches = 1 /\ ftdi.usb_dev # NoHandle)
        /\ arg.matches = 0 => res \in {"not_found", "list_failed"}

\* C40: for every chip family, bitbang setting and rate of the i32 range,
\* ftdi_set_baudrate returns success or one of its typed failures, and none
\* of the i32 products it computes on the way leaves the range of i32: no
\* overflow aborts the call, no wrapped product decides the tolerance test.
C40_BaudrateProductsInRange ==
    op = "set_baudrate" =>
        /\ res \in {"ok", "no_dev", "silly_baudrate", "unsupported_baudrate", "cmd_err"}
        /\ ~arg.overflow

====
